---- MODULE Spec2Model ----
(***************************************************************************)
(* A model of the NEURO-SENTINEL backend:                                  *)
(*   - src/core/deployment_logic.py : SovereignSurgeon (the audit ledger   *)
(*     of ThoughtSignatures, analyze_and_plan, diagnose_error and the two  *)
(*     response parsers);                                                  *)
(*   - src/core/schema.py : the pydantic models the parsers construct;     *)
(*   - src/main.py : SentinelState, the fix-review endpoints, the          *)
(*     analysis endpoint and the deploy endpoint;                          *)
(*   - src/core/ingestor.py : RepositoryIngestor (clone, the directory     *)
(*     walk, get_full_context and its cache, build_repo_map and its        *)
(*     scanners, the dependency extractor).                                *)
(*                                                                         *)
(* Conventions.                                                            *)
(*   A Python value that came out of json.loads is a tagged record:        *)
(*     [t |-> "null"], [t |-> "int", n |-> 3], [t |-> "float", h |-> 150]  *)
(*     (h in hundredths: 150 is 1.5), [t |-> "str", s |-> "x"],            *)
(*     [t |-> "arr", a |-> <<...>>], [t |-> "obj", o |-> [key |-> value]]. *)
(*   A response text is a sequence of tokens: a fence (three backquotes),  *)
(*     a tag (a word such as json), whitespace, one complete JSON value,   *)
(*     or prose that is not JSON.                                          *)
(*   A call that raises is the outcome [kind |-> "raise", exc |-> name];   *)
(*     a call that returns is [kind |-> "return", ...].                    *)
(*   Optional[str] fields hold JNull or JStr(s).                           *)
(***************************************************************************)
EXTENDS Integers, Sequences, FiniteSets, TLC

VARIABLES
    clock,               \* datetime.utcnow(), in whole seconds
    thought_signatures,  \* SovereignSurgeon.thought_signatures: the records
                         \* appended since the start of the modelled window
    prior_signatures,    \* number of records appended before that window
    calls,               \* one entry per analyze_and_plan / diagnose_error call
    last,                \* the call that completed most recently: the
                         \* response text it got and its outcome
    agent_state,         \* SentinelState.agent_state
    pending_fixes,       \* SentinelState.pending_fixes: fix id -> FixProposal
    simulating,          \* simulate_error requests suspended in their sleeps
    reviews,             \* approve_fix requests suspended at an await
    decision,            \* the reviewer request completed most recently
    disk,                \* the directory at RepositoryIngestor.repo_path
    context_cache,       \* RepositoryIngestor._context_cache
    ingest,              \* the ingestor call completed most recently
    scan,                \* the _find_ports call completed most recently
    api_key,             \* os.getenv("GEMINI_API_KEY")
    current_plan,        \* SentinelState.current_repo_map and
                         \* current_deployment_plan
    analyses,            \* analyze_repository requests in flight
    engine,              \* what the reasoning engine has been sent
    answer,              \* the analyze_repository request completed most
                         \* recently
    extract,             \* the _parse_dependencies call completed most recently
    deploys,             \* deploy_application requests suspended at an await
    deployed             \* the deploy_application request completed most
                         \* recently

vars == <<clock, thought_signatures, prior_signatures, calls, last, agent_state, pending_fixes, simulating, reviews, decision, disk, context_cache, ingest, scan, api_key, current_plan, analyses, engine, answer, extract, deploys, deployed>>

ingestVars == <<disk, context_cache, ingest, scan, extract>>
analyzeVars == <<api_key, current_plan, analyses, engine, answer, deploys, deployed>>

surgeonVars == <<thought_signatures, prior_signatures, calls, last>>
sentinelVars == <<agent_state, pending_fixes, simulating, reviews, decision>>

----------------------------------------------------------------------------
(* Bounds of the model *)

MaxCalls == 2       \* calls made on the one SovereignSurgeon instance
MaxTicks == 1       \* seconds the clock advances within a behaviour
MaxFixes == 2       \* fix proposals created by /simulate-error
MaxReviews == 2     \* approve requests suspended at the same time
MaxLiterals == 1    \* numeric literals in a content the port scanner reads
MaxAnalyses == 2    \* /analyze requests within a behaviour
MaxLines == 2       \* lines of a requirements.txt the extractor reads
MaxDeploys == 1     \* /deploy requests suspended at the same time

CallIds == 1..MaxCalls

\* A day in seconds: strftime('%H%M%S') shows the time of day only.
SecondsPerDay == 86400

\* Clock values at which a behaviour may start: the last second of a day,
\* so that the behaviours cover calls within one second, within one day and
\* on both sides of midnight.
StartClocks == {SecondsPerDay - 1}

\* Ledger lengths at which a behaviour may start: a fresh instance, and an
\* instance that has already signed 999 reasoning steps.
PriorCounts == {0, 999}

----------------------------------------------------------------------------
(* Python values *)

JNull == [t |-> "null"]
JInt(n) == [t |-> "int", n |-> n]
JFloat(h) == [t |-> "float", h |-> h]
JStr(s) == [t |-> "str", s |-> s]
JBool(b) == [t |-> "bool", b |-> b]
JArr(a) == [t |-> "arr", a |-> a]
JObj(o) == [t |-> "obj", o |-> o]

EmptyDict == JObj(<<>>)
EmptyList == JArr(<<>>)

\* dict.get(key, default)
Get(d, key, default) ==
    IF key \in DOMAIN d.o THEN d.o[key] ELSE default

Raise(e) == [kind |-> "raise", exc |-> e]

\* for x in v: a list iterates over its elements, a dict over its keys and
\* a str over its characters; None, numbers and bools are not iterable.
Iterable(v) == v.t \in {"arr", "obj", "str"}

Min(S) == CHOOSE x \in S : \A y \in S : x <= y

Elements(v) == IF v.t = "arr" THEN v.a ELSE <<>>

\* The exception that [Build(x) for x in v] raises, "" when it raises none.
\* Build needs x to be a dict (it raises notMapping otherwise: TypeError for
\* Model(**x), AttributeError for x.get) and raises ValidationError for the
\* elements whose indices are in invalid.  The keys of a dict and the
\* characters of a str are strs.
ComprehensionExc(v, invalid, notMapping) ==
    IF ~Iterable(v) THEN "TypeError"
    ELSE IF v.t = "obj" THEN (IF DOMAIN v.o = {} THEN "" ELSE notMapping)
    ELSE IF v.t = "str" THEN (IF v.s = "" THEN "" ELSE notMapping)
    ELSE LET bad == {i \in DOMAIN v.a : v.a[i].t # "obj" \/ i \in invalid}
         IN  IF bad = {} THEN ""
             ELSE IF v.a[Min(bad)].t # "obj" THEN notMapping
             ELSE "ValidationError"

\* The dicts among the elements of a list
Dicts(v) == {i \in DOMAIN Elements(v) : Elements(v)[i].t = "obj"}

----------------------------------------------------------------------------
(* pydantic field validation (v2, lax mode: main.py calls model_dump) *)

\* str: a str only; numbers and None are errors.
StrOk(v) == v.t = "str"

\* Optional[str]
OptStrOk(v) == v.t \in {"str", "null"}

\* int: an int, a bool, or a float without a fractional part.  (A str of
\* digits would pass too; the strs of the model are not numerals.)
IntOk(v) == v.t \in {"int", "bool"} \/ (v.t = "float" /\ v.h % 100 = 0)
IntVal(v) ==
    CASE v.t = "int" -> v.n
      [] v.t = "bool" -> (IF v.b THEN 1 ELSE 0)
      [] OTHER -> v.h \div 100

\* float, in hundredths
FloatOk(v) == v.t \in {"int", "float", "bool"}
FloatVal(v) == IF v.t = "float" THEN v.h ELSE IntVal(v) * 100

\* bool: a bool, or the ints 0 and 1
BoolOk(v) == v.t = "bool" \/ (v.t = "int" /\ v.n \in {0, 1})
BoolVal(v) == IF v.t = "bool" THEN v.b ELSE v.n = 1

\* List[str], List[int], Dict[str, str]
StrListOk(v) == v.t = "arr" /\ \A i \in DOMAIN v.a : StrOk(v.a[i])
IntListOk(v) == v.t = "arr" /\ \A i \in DOMAIN v.a : IntOk(v.a[i])
StrDictOk(v) == v.t = "obj" /\ \A k \in DOMAIN v.o : StrOk(v.o[k])

StrList(v) == [i \in DOMAIN v.a |-> v.a[i].s]
IntList(v) == [i \in DOMAIN v.a |-> IntVal(v.a[i])]
StrDict(v) == [k \in DOMAIN v.o |-> v.o[k].s]

----------------------------------------------------------------------------
(* src/core/schema.py: the models the parsers construct.  XOk(...) says that
   the constructor's validation passes; X(...) is the object it builds. *)

\* FixProposal.confidence_score: Field(..., ge=0.0, le=1.0), in hundredths
ConfidenceMin == 0
ConfidenceMax == 100

RiskLevels == {"low", "medium", "high", "critical"}

\* DependencyInfo(**dep): name and source are required
DependencyInfoOk(d) ==
    /\ "name" \in DOMAIN d.o /\ StrOk(d.o["name"])
    /\ OptStrOk(Get(d, "version", JNull))
    /\ "source" \in DOMAIN d.o /\ StrOk(d.o["source"])

DependencyInfo(d) ==
    [name |-> d.o["name"].s, version |-> Get(d, "version", JNull),
     source |-> d.o["source"].s]

\* FileMapping(**fm): path, language and size_bytes are required
FileMappingOk(d) ==
    /\ "path" \in DOMAIN d.o /\ StrOk(d.o["path"])
    /\ "language" \in DOMAIN d.o /\ StrOk(d.o["language"])
    /\ "size_bytes" \in DOMAIN d.o /\ IntOk(d.o["size_bytes"])
    /\ OptStrOk(Get(d, "purpose", JNull))

FileMapping(d) ==
    [path |-> d.o["path"].s, language |-> d.o["language"].s,
     size_bytes |-> IntVal(d.o["size_bytes"]), purpose |-> Get(d, "purpose", JNull)]

\* SecretRequirement(**sr): name, source_file and source_line are required
SecretRequirementOk(d) ==
    /\ "name" \in DOMAIN d.o /\ StrOk(d.o["name"])
    /\ "source_file" \in DOMAIN d.o /\ StrOk(d.o["source_file"])
    /\ "source_line" \in DOMAIN d.o /\ IntOk(d.o["source_line"])
    /\ BoolOk(Get(d, "is_critical", JBool(TRUE)))
    /\ OptStrOk(Get(d, "suggested_source", JNull))

SecretRequirement(d) ==
    [name |-> d.o["name"].s, source_file |-> d.o["source_file"].s,
     source_line |-> IntVal(d.o["source_line"]),
     is_critical |-> BoolVal(Get(d, "is_critical", JBool(TRUE))),
     suggested_source |-> Get(d, "suggested_source", JNull)]

\* RepoMap(...), every argument a Python value
RepoMapOk(project_name, primary_language, framework, entry_point, dependency_file, total_files, total_tokens, logic_flow, detected_env_vars, detected_ports) ==
    /\ StrOk(project_name) /\ StrOk(primary_language) /\ OptStrOk(framework)
    /\ StrOk(entry_point) /\ StrOk(dependency_file)
    /\ IntOk(total_files) /\ IntOk(total_tokens)
    /\ StrDictOk(logic_flow) /\ StrListOk(detected_env_vars)
    /\ IntListOk(detected_ports)

RepoMap(project_name, primary_language, framework, entry_point, dependency_file, dependencies, file_mappings, total_files, total_tokens, logic_flow, detected_env_vars, detected_ports) ==
    [project_name |-> project_name.s, primary_language |-> primary_language.s,
     framework |-> framework, entry_point |-> entry_point.s,
     dependency_file |-> dependency_file.s,
     dependencies |-> dependencies, file_mappings |-> file_mappings,
     total_files |-> IntVal(total_files), total_tokens |-> IntVal(total_tokens),
     logic_flow |-> StrDict(logic_flow),
     detected_env_vars |-> StrList(detected_env_vars),
     detected_ports |-> IntList(detected_ports)]

DockerfileSpecOk(base_image, build_stage, runtime_stage, full_content, optimizations_applied) ==
    /\ StrOk(base_image) /\ StrOk(build_stage) /\ StrOk(runtime_stage)
    /\ StrOk(full_content) /\ StrListOk(optimizations_applied)

DockerfileSpec(base_image, build_stage, runtime_stage, full_content, optimizations_applied) ==
    [base_image |-> base_image.s, build_stage |-> build_stage.s,
     runtime_stage |-> runtime_stage.s, full_content |-> full_content.s,
     optimizations_applied |-> StrList(optimizations_applied)]

TerraformSpecOk(provider_config, cloud_run_config, iam_config, secrets_config, full_content) ==
    /\ StrOk(provider_config) /\ StrOk(cloud_run_config) /\ StrOk(iam_config)
    /\ StrOk(secrets_config) /\ StrOk(full_content)

TerraformSpec(provider_config, cloud_run_config, iam_config, secrets_config, full_content) ==
    [provider_config |-> provider_config.s, cloud_run_config |-> cloud_run_config.s,
     iam_config |-> iam_config.s, secrets_config |-> secrets_config.s,
     full_content |-> full_content.s]

DeploymentPlanOk(secrets_missing, estimated_monthly_cost_usd, deployment_region, service_url_pattern) ==
    /\ StrListOk(secrets_missing) /\ FloatOk(estimated_monthly_cost_usd)
    /\ StrOk(deployment_region) /\ StrOk(service_url_pattern)

DeploymentPlan(dockerfile, terraform, secrets_required, secrets_missing, estimated_monthly_cost_usd, deployment_region, service_url_pattern, signatures) ==
    [dockerfile |-> dockerfile, terraform |-> terraform,
     secrets_required |-> secrets_required,
     secrets_missing |-> StrList(secrets_missing),
     estimated_monthly_cost_usd |-> FloatVal(estimated_monthly_cost_usd),
     deployment_region |-> deployment_region.s,
     service_url_pattern |-> service_url_pattern.s,
     thought_signatures |-> signatures]

CodePatchOk(file_path, start_line, end_line, original_content, patched_content, diff) ==
    /\ StrOk(file_path) /\ IntOk(start_line) /\ IntOk(end_line)
    /\ StrOk(original_content) /\ StrOk(patched_content) /\ StrOk(diff)

CodePatch(file_path, start_line, end_line, original_content, patched_content, diff) ==
    [file_path |-> file_path.s, start_line |-> IntVal(start_line),
     end_line |-> IntVal(end_line), original_content |-> original_content.s,
     patched_content |-> patched_content.s, diff |-> diff.s]

AssistModeMetadataOk(what_this_does, why_its_needed, potential_implications, learn_more_links) ==
    /\ StrOk(what_this_does) /\ StrOk(why_its_needed)
    /\ StrListOk(potential_implications) /\ StrListOk(learn_more_links)

AssistModeMetadata(what_this_does, why_its_needed, potential_implications, learn_more_links) ==
    [what_this_does |-> what_this_does.s, why_its_needed |-> why_its_needed.s,
     potential_implications |-> StrList(potential_implications),
     learn_more_links |-> StrList(learn_more_links)]

\* FixProposalOk without the ge/le bounds of confidence_score
FixProposalOkUnbounded(diagnosis, confidence_score, alternative_fixes) ==
    StrOk(diagnosis) /\ FloatOk(confidence_score) /\ StrListOk(alternative_fixes)

\* The fields of FixProposal that the parser takes from the response; the
\* other arguments are strs and ints of the caller and always validate.
FixProposalOk(diagnosis, confidence_score, alternative_fixes) ==
    /\ StrOk(diagnosis)
    /\ FloatOk(confidence_score)
    /\ FloatVal(confidence_score) >= ConfidenceMin
    /\ FloatVal(confidence_score) <= ConfidenceMax
    /\ StrListOk(alternative_fixes)

\* status, reviewed_by, reviewed_at and rejection_reason take their defaults;
\* created_at is utcnow() at construction.
FixProposal(id, now, error_type, error_message, stack_trace, affected_file, affected_line, diagnosis, confidence_score, risk_level, patches, alternative_fixes, assist_mode, signature) ==
    [id |-> id, created_at |-> now, error_type |-> error_type,
     error_message |-> error_message, stack_trace |-> stack_trace,
     affected_file |-> affected_file, affected_line |-> affected_line,
     diagnosis |-> diagnosis.s, confidence_score |-> FloatVal(confidence_score),
     risk_level |-> risk_level, patches |-> patches,
     alternative_fixes |-> StrList(alternative_fixes), assist_mode |-> assist_mode,
     status |-> "pending", reviewed_by |-> JNull, reviewed_at |-> JNull,
     rejection_reason |-> JNull, thought_signature |-> signature]

----------------------------------------------------------------------------
(* Response texts *)

Fence == [k |-> "fence"]          \* three backquotes
Tag(w) == [k |-> "tag", s |-> w]  \* a word
Ws == [k |-> "ws"]                \* a newline or blanks
Json(v) == [k |-> "json", v |-> v]  \* the text of one JSON value
Prose == [k |-> "prose"]          \* text that is no JSON value

\* str.strip()
RECURSIVE lstrip(_)
lstrip(text) ==
    IF text # <<>> /\ Head(text) = Ws THEN lstrip(Tail(text)) ELSE text

RECURSIVE rstrip(_)
rstrip(text) ==
    IF text # <<>> /\ text[Len(text)] = Ws
    THEN rstrip(SubSeq(text, 1, Len(text) - 1)) ELSE text

strip(text) == rstrip(lstrip(text))

\* str.startswith, str.endswith
startswith(text, prefix) ==
    Len(text) >= Len(prefix) /\ SubSeq(text, 1, Len(prefix)) = prefix

endswith(text, suffix) ==
    /\ Len(text) >= Len(suffix)
    /\ SubSeq(text, Len(text) - Len(suffix) + 1, Len(text)) = suffix

\* The three ifs that both parsers apply to response_text.strip()
strip_fences(response_text) ==
    LET text0 == strip(response_text)
        text1 == IF startswith(text0, <<Fence, Tag("json")>>)
                 THEN SubSeq(text0, 3, Len(text0)) ELSE text0
        text2 == IF startswith(text1, <<Fence>>)
                 THEN SubSeq(text1, 2, Len(text1)) ELSE text1
    IN  IF endswith(text2, <<Fence>>)
        THEN SubSeq(text2, 1, Len(text2) - 1) ELSE text2

\* json.loads: whitespace around one JSON value is accepted; anything else
\* is a JSONDecodeError (ok = FALSE).
json_loads(text) ==
    LET body == strip(text)
    IN  IF Len(body) = 1 /\ body[1].k = "json"
        THEN [ok |-> TRUE, v |-> body[1].v]
        ELSE [ok |-> FALSE, v |-> JNull]

----------------------------------------------------------------------------
(* SovereignSurgeon._create_signature *)

DigitChars == <<"0", "1", "2", "3", "4", "5", "6", "7", "8", "9">>

\* str(n) for n >= 0, as a sequence of characters
RECURSIVE Decimal(_)
Decimal(n) ==
    IF n < 10 THEN <<DigitChars[n + 1]>>
    ELSE Decimal(n \div 10) \o <<DigitChars[(n % 10) + 1]>>

\* format(n, "0<width>d"): zeros on the left up to width, never truncated
RECURSIVE ZeroPad(_, _)
ZeroPad(digits, width) ==
    IF Len(digits) >= width THEN digits ELSE ZeroPad(<<"0">> \o digits, width)

\* datetime.strftime('%H%M%S')
strftime_HMS(now) ==
    LET tod == now % SecondsPerDay
    IN  ZeroPad(Decimal(tod \div 3600), 2)
          \o ZeroPad(Decimal((tod % 3600) \div 60), 2)
          \o ZeroPad(Decimal(tod % 60), 2)

\* Width of the sequence counter in a signature id: the 03 of {...:03d}.
CounterWidth == 3

\* sig_id without the sequence counter
sig_id_time_only(now, count) == <<"S", "I", "G", "-">> \o strftime_HMS(now)

\* f"SIG-{utcnow().strftime('%H%M%S')}-{len(self.thought_signatures):03d}"
sig_id(now, count) ==
    <<"S", "I", "G", "-">> \o strftime_HMS(now) \o <<"-">>
        \o ZeroPad(Decimal(count), CounterWidth)

\* The ThoughtSignature that _create_signature builds when the ledger
\* holds count records; timestamp is the model's default, utcnow().
ThoughtSignature(now, count, reasoning, action, verification, risk, tokens) ==
    [id |-> sig_id(now, count), timestamp |-> now, reasoning_step |-> reasoning,
     action_taken |-> action, verification_method |-> verification,
     risk_level |-> risk, context_tokens_used |-> tokens]

\* len(self.thought_signatures)
LedgerLen == prior_signatures + Len(thought_signatures)

\* ledger_append as an insert at the front
ledger_prepend(ledger, sig) == <<sig>> \o ledger

\* ledger_append as an assignment to the newest record
ledger_overwrite(ledger, sig) == IF ledger = <<>> THEN <<sig>> ELSE [ledger EXCEPT ![Len(ledger)] = sig]

\* self.thought_signatures.append(sig)
ledger_append(ledger, sig) == Append(ledger, sig)

\* _create_signature's sig, built from utcnow() and the ledger's length
create_signature(reasoning, action, verification, risk, tokens) ==
    ThoughtSignature(clock, LedgerLen, reasoning, action, verification, risk,
                     tokens)

\* The value of a call's sig before _create_signature has run
NoSignature == [id |-> <<>>, timestamp |-> 0, reasoning_step |-> "",
                action_taken |-> "", verification_method |-> "",
                risk_level |-> "low", context_tokens_used |-> 0]

----------------------------------------------------------------------------
(* SovereignSurgeon._create_default_response *)

\* DefaultRepoMap with the field defaults of the decode path
DefaultRepoMapUnknown ==
    RepoMap(JStr("unknown"), JStr("unknown"), JNull, JStr("unknown"),
            JStr("unknown"), <<>>, <<>>, JInt(0), JInt(0), EmptyDict,
            EmptyList, EmptyList)

DefaultRepoMap ==
    RepoMap(JStr("unknown"), JStr("python"), JNull, JStr("main.py"),
            JStr("requirements.txt"), <<>>, <<>>, JInt(0), JInt(0), EmptyDict,
            EmptyList, EmptyList)

DefaultDockerfile ==
    DockerfileSpec(
        JStr("python:3.12-slim"),
        JStr("FROM python:3.12-slim AS builder\nWORKDIR /app\nCOPY requirements.txt .\nRUN pip install --no-cache-dir -r requirements.txt"),
        JStr("FROM python:3.12-slim\nWORKDIR /app\nCOPY --from=builder /usr/local/lib/python3.12/site-packages /usr/local/lib/python3.12/site-packages\nCOPY . .\nCMD [\"python\", \"main.py\"]"),
        JStr("# Default Dockerfile\nFROM python:3.12-slim\nWORKDIR /app\nCOPY . .\nRUN pip install -r requirements.txt\nCMD [\"python\", \"main.py\"]"),
        EmptyList)

DefaultTerraform ==
    TerraformSpec(
        JStr("provider \"google\" {\n  project = var.project_id\n  region  = var.region\n}"),
        JStr("# Cloud Run configuration pending"),
        JStr("# IAM configuration pending"),
        JStr("# Secrets configuration pending"),
        JStr("# Full Terraform pending"))

create_default_response(signature) ==
    [kind |-> "return",
     repo_map |-> DefaultRepoMap,
     deployment_plan |->
        DeploymentPlan(DefaultDockerfile, DefaultTerraform, <<>>, EmptyList,
                       JFloat(0), JStr("us-central1"),
                       JStr("https://PROJECT.run.app"), <<signature>>)]

----------------------------------------------------------------------------
(* SovereignSurgeon._parse_analysis_response *)

\* The RepoMap(...) expression: x.get on a value that is no dict raises
\* AttributeError, the two comprehensions raise as ComprehensionExc says,
\* and the constructor validates the collected arguments.
decode_repo_map(data) ==
    LET rm_data == Get(data, "repo_map", EmptyDict)
    IN  IF rm_data.t # "obj" THEN Raise("AttributeError")
        ELSE
        LET deps == Get(rm_data, "dependencies", EmptyList)
            fms == Get(rm_data, "file_mappings", EmptyList)
            depExc == ComprehensionExc(
                          deps, {i \in Dicts(deps) : ~DependencyInfoOk(deps.a[i])},
                          "TypeError")
            fmExc == ComprehensionExc(
                         fms, {i \in Dicts(fms) : ~FileMappingOk(fms.a[i])},
                         "TypeError")
            project_name == Get(rm_data, "project_name", JStr("unknown"))
            primary_language == Get(rm_data, "primary_language", JStr("unknown"))
            framework == Get(rm_data, "framework", JNull)
            entry_point == Get(rm_data, "entry_point", JStr("unknown"))
            dependency_file == Get(rm_data, "dependency_file", JStr("unknown"))
            total_files == Get(rm_data, "total_files", JInt(0))
            total_tokens == Get(rm_data, "total_tokens", JInt(0))
            logic_flow == Get(rm_data, "logic_flow", EmptyDict)
            detected_env_vars == Get(rm_data, "detected_env_vars", EmptyList)
            detected_ports == Get(rm_data, "detected_ports", EmptyList)
        IN  IF depExc # "" THEN Raise(depExc)
            ELSE IF fmExc # "" THEN Raise(fmExc)
            ELSE IF ~RepoMapOk(project_name, primary_language, framework,
                               entry_point, dependency_file, total_files,
                               total_tokens, logic_flow, detected_env_vars,
                               detected_ports)
            THEN Raise("ValidationError")
            ELSE [kind |-> "return",
                  v |-> RepoMap(project_name, primary_language, framework,
                                entry_point, dependency_file,
                                [i \in DOMAIN Elements(deps) |->
                                    DependencyInfo(deps.a[i])],
                                [i \in DOMAIN Elements(fms) |->
                                    FileMapping(fms.a[i])],
                                total_files, total_tokens, logic_flow,
                                detected_env_vars, detected_ports)]

decode_dockerfile(dp_data) ==
    LET dockerfile_data == Get(dp_data, "dockerfile", EmptyDict)
    IN  IF dockerfile_data.t # "obj" THEN Raise("AttributeError")
        ELSE
        LET base_image == Get(dockerfile_data, "base_image", JStr("python:3.12-slim"))
            build_stage == Get(dockerfile_data, "build_stage", JStr(""))
            runtime_stage == Get(dockerfile_data, "runtime_stage", JStr(""))
            full_content == Get(dockerfile_data, "full_content", JStr(""))
            optimizations == Get(dockerfile_data, "optimizations_applied", EmptyList)
        IN  IF ~DockerfileSpecOk(base_image, build_stage, runtime_stage,
                                 full_content, optimizations)
            THEN Raise("ValidationError")
            ELSE [kind |-> "return",
                  v |-> DockerfileSpec(base_image, build_stage, runtime_stage,
                                       full_content, optimizations)]

decode_terraform(dp_data) ==
    LET terraform_data == Get(dp_data, "terraform", EmptyDict)
    IN  IF terraform_data.t # "obj" THEN Raise("AttributeError")
        ELSE
        LET provider_config == Get(terraform_data, "provider_config", JStr(""))
            cloud_run_config == Get(terraform_data, "cloud_run_config", JStr(""))
            iam_config == Get(terraform_data, "iam_config", JStr(""))
            secrets_config == Get(terraform_data, "secrets_config", JStr(""))
            full_content == Get(terraform_data, "full_content", JStr(""))
        IN  IF ~TerraformSpecOk(provider_config, cloud_run_config, iam_config,
                                secrets_config, full_content)
            THEN Raise("ValidationError")
            ELSE [kind |-> "return",
                  v |-> TerraformSpec(provider_config, cloud_run_config,
                                      iam_config, secrets_config, full_content)]

decode_deployment_plan(data, signature) ==
    LET dp_data == Get(data, "deployment_plan", EmptyDict)
    IN  IF dp_data.t # "obj" THEN Raise("AttributeError")
        ELSE
        LET dockerfile == decode_dockerfile(dp_data)
            terraform == decode_terraform(dp_data)
            secrets == Get(dp_data, "secrets_required", EmptyList)
            secExc == ComprehensionExc(
                          secrets,
                          {i \in Dicts(secrets) : ~SecretRequirementOk(secrets.a[i])},
                          "TypeError")
            secrets_missing == Get(dp_data, "secrets_missing", EmptyList)
            cost == Get(dp_data, "estimated_monthly_cost_usd", JFloat(0))
            region == Get(dp_data, "deployment_region", JStr("us-central1"))
            url == Get(dp_data, "service_url_pattern", JStr("https://PROJECT.run.app"))
        IN  IF dockerfile.kind = "raise" THEN dockerfile
            ELSE IF terraform.kind = "raise" THEN terraform
            ELSE IF secExc # "" THEN Raise(secExc)
            ELSE IF ~DeploymentPlanOk(secrets_missing, cost, region, url)
            THEN Raise("ValidationError")
            ELSE [kind |-> "return",
                  v |-> DeploymentPlan(dockerfile.v, terraform.v,
                                       [i \in DOMAIN Elements(secrets) |->
                                           SecretRequirement(secrets.a[i])],
                                       secrets_missing, cost, region, url,
                                       <<signature>>)]

\* The try block catches json.JSONDecodeError only: every other exception
\* leaves the parser.
parse_analysis_response(response_text, signature) ==
    LET loaded == json_loads(strip_fences(response_text))
    IN  IF ~loaded.ok THEN create_default_response(signature)
        ELSE IF loaded.v.t # "obj" THEN Raise("AttributeError")
        ELSE
        LET repo_map == decode_repo_map(loaded.v)
            deployment_plan == decode_deployment_plan(loaded.v, signature)
        IN  IF repo_map.kind = "raise" THEN repo_map
            ELSE IF deployment_plan.kind = "raise" THEN deployment_plan
            ELSE [kind |-> "return", repo_map |-> repo_map.v,
                  deployment_plan |-> deployment_plan.v]

----------------------------------------------------------------------------
(* SovereignSurgeon._parse_diagnosis_response *)

\* f"fix-{datetime.utcnow().timestamp()}"
fix_id(now) == <<"fix", now>>

\* error_message.split(":")[0] if ":" in error_message else "Error";
\* error_message is the sequence of its parts between the colons.
error_type_of(error_message) ==
    IF Len(error_message) > 1 THEN error_message[1] ELSE "Error"

\* str.lower() on the risk levels the model's responses use
lower(w) ==
    CASE w = "LOW" -> "low"
      [] w = "MEDIUM" -> "medium"
      [] w = "HIGH" -> "high"
      [] w = "CRITICAL" -> "critical"
      [] w = "Dockerfile" -> "dockerfile"
      [] w = "Makefile" -> "makefile"
      [] w = "Gemfile" -> "gemfile"
      [] w = "Main" -> "main"
      [] w = ".PY" -> ".py"
      [] OTHER -> w

PatchOk(affected_file, affected_line, pt) ==
    CodePatchOk(Get(pt, "file_path", JStr(affected_file)),
                Get(pt, "start_line", JInt(affected_line)),
                Get(pt, "end_line", JInt(affected_line)),
                Get(pt, "original_content", JStr("")),
                Get(pt, "patched_content", JStr("")),
                Get(pt, "diff", JStr("")))

Patch(affected_file, affected_line, pt) ==
    CodePatch(Get(pt, "file_path", JStr(affected_file)),
              Get(pt, "start_line", JInt(affected_line)),
              Get(pt, "end_line", JInt(affected_line)),
              Get(pt, "original_content", JStr("")),
              Get(pt, "patched_content", JStr("")),
              Get(pt, "diff", JStr("")))

\* The FixProposal of the except branch
default_fix_proposal(now, stack_trace, error_message, affected_file, affected_line, signature) ==
    FixProposal(fix_id(now), now, "ParseError", error_message, stack_trace,
                affected_file, affected_line,
                JStr("Unable to parse AI response. Manual investigation required."),
                JFloat(0), "high", <<>>, EmptyList,
                AssistModeMetadata(JStr("Manual fix required"),
                                   JStr("AI parsing failed"),
                                   JArr(<<JStr("Requires manual debugging")>>),
                                   EmptyList),
                signature)

decode_fix_proposal(data, now, stack_trace, error_message, affected_file, affected_line, signature) ==
    LET patches == Get(data, "patches", EmptyList)
        patchExc == ComprehensionExc(
                        patches,
                        {i \in Dicts(patches) :
                            ~PatchOk(affected_file, affected_line, patches.a[i])},
                        "AttributeError")
        assist_data == Get(data, "assist_mode", EmptyDict)
        risk == Get(data, "risk_level", JStr("low"))
    IN  IF patchExc # "" THEN Raise(patchExc)
        ELSE IF assist_data.t # "obj" THEN Raise("AttributeError")
        ELSE
        LET what == Get(assist_data, "what_this_does", JStr("Applies a code fix"))
            why == Get(assist_data, "why_its_needed",
                       JStr("To resolve the detected error"))
            implications == Get(assist_data, "potential_implications", EmptyList)
            links == Get(assist_data, "learn_more_links", EmptyList)
            diagnosis == Get(data, "diagnosis", JStr("Analysis complete"))
            confidence == Get(data, "confidence_score", JFloat(80))
            alternatives == Get(data, "alternative_fixes", EmptyList)
        IN  IF ~AssistModeMetadataOk(what, why, implications, links)
            THEN Raise("ValidationError")
            ELSE IF risk.t # "str" THEN Raise("AttributeError")
            ELSE IF ~FixProposalOk(diagnosis, confidence, alternatives)
            THEN Raise("ValidationError")
            ELSE [kind |-> "return",
                  fix |-> FixProposal(
                      fix_id(now), now, error_type_of(error_message),
                      error_message, stack_trace, affected_file, affected_line,
                      diagnosis, confidence,
                      IF lower(risk.s) \in RiskLevels THEN lower(risk.s) ELSE "low",
                      [i \in DOMAIN Elements(patches) |->
                          Patch(affected_file, affected_line, patches.a[i])],
                      alternatives,
                      AssistModeMetadata(what, why, implications, links),
                      signature)]

parse_diagnosis_response(response_text, now, stack_trace, error_message, affected_file, affected_line, signature) ==
    LET loaded == json_loads(strip_fences(response_text))
    IN  IF ~loaded.ok
        THEN [kind |-> "return",
              fix |-> default_fix_proposal(now, stack_trace, error_message,
                                           affected_file, affected_line, signature)]
        ELSE IF loaded.v.t # "obj" THEN Raise("AttributeError")
        ELSE decode_fix_proposal(loaded.v, now, stack_trace, error_message,
                                 affected_file, affected_line, signature)

----------------------------------------------------------------------------
(* Inputs of the SovereignSurgeon calls *)

\* len(codebase_context)
ContextLens == {9}

\* diagnose_error's arguments
StackTrace == "at getUser (core/api.py:7)"
AffectedFile == "core/api.py"
AffectedLine == 7
ErrorMessages == {<<"TypeError", " user_id is undefined">>}

\* JSON values the reasoning engine may answer a planning prompt with
PlanComplete(missing) ==
    JObj([repo_map |->
            JObj([project_name |-> JStr("demo"),
                  primary_language |-> JStr("python"),
                  framework |-> JStr("FastAPI"),
                  entry_point |-> JStr("main.py"),
                  dependency_file |-> JStr("requirements.txt"),
                  dependencies |->
                      JArr(<<JObj([name |-> JStr("flask"),
                                   version |-> JStr("2.0.1"),
                                   source |-> JStr("requirements.txt")])>>),
                  detected_ports |-> JArr(<<JInt(8000)>>),
                  total_files |-> JInt(12),
                  total_tokens |-> JFloat(300000)]),
          deployment_plan |->
            JObj([dockerfile |->
                      JObj([base_image |-> JStr("python:3.12-slim"),
                            build_stage |-> JStr("FROM python:3.12-slim AS builder"),
                            runtime_stage |-> JStr("FROM python:3.12-slim"),
                            full_content |-> JStr("FROM python:3.12-slim AS builder\nFROM python:3.12-slim"),
                            optimizations_applied |-> JArr(<<JStr("multi-stage")>>)]),
                  terraform |->
                      JObj([provider_config |-> JStr("provider"),
                            cloud_run_config |-> JStr("cloud_run"),
                            iam_config |-> JStr("iam"),
                            secrets_config |-> JStr("secrets"),
                            full_content |-> JStr("provider\ncloud_run")]),
                  secrets_required |->
                      JArr(<<JObj([name |-> JStr("DATABASE_URL"),
                                   source_file |-> JStr("main.py"),
                                   source_line |-> JInt(3)])>>),
                  secrets_missing |-> JArr(missing),
                  estimated_monthly_cost_usd |-> JInt(12),
                  service_url_pattern |-> JStr("https://demo.run.app")])])

PlanValues ==
    { PlanComplete(<<>>),
      PlanComplete(<<JStr("DATABASE_URL")>>),
      EmptyDict,                                   \* {}
      EmptyList,                                   \* []
      JObj([repo_map |-> JNull]),                  \* {"repo_map": null}
      JObj([repo_map |-> JObj([project_name |-> JNull])]),
      JObj([repo_map |-> JObj([dependencies |-> JArr(<<JStr("flask")>>)])]),
      JObj([deployment_plan |->
              JObj([dockerfile |-> JObj([full_content |-> JStr("FROM scratch")])])]) }

\* JSON values the reasoning engine may answer a diagnosis prompt with
FixComplete(confidence, risk, patch) ==
    JObj([diagnosis |-> JStr("user_id is not checked"),
          confidence_score |-> confidence,
          risk_level |-> risk,
          patches |-> JArr(<<patch>>),
          alternative_fixes |-> JArr(<<JStr("validate upstream")>>),
          assist_mode |->
              JObj([what_this_does |-> JStr("adds a check"),
                    why_its_needed |-> JStr("user_id may be undefined"),
                    potential_implications |-> JArr(<<JStr("callers see an error")>>)])])

FixValues ==
    { FixComplete(JFloat(92), JStr("HIGH"),
                  JObj([file_path |-> JStr("core/api.py"),
                        start_line |-> JInt(7), end_line |-> JInt(9)])),
      FixComplete(JInt(1), JStr("severe"), JObj([start_line |-> JInt(10)])),
      FixComplete(JFloat(150), JStr("low"), EmptyDict),
      FixComplete(JFloat(-10), JStr("low"), EmptyDict),
      FixComplete(JFloat(50), JInt(3), EmptyDict),
      FixComplete(JNull, JStr("medium"), EmptyDict),
      EmptyDict,                                   \* {}
      JStr("no fix"),                              \* "no fix"
      JObj([patches |-> JArr(<<JInt(1)>>)]) }

\* The texts a JSON value may arrive in, and texts that hold none
Wrappings(v) ==
    { <<Json(v)>>,
      <<Ws, Json(v), Ws>>,
      <<Fence, Tag("json"), Ws, Json(v), Ws, Fence>>,
      <<Fence, Ws, Json(v), Ws, Fence>>,
      <<Fence, Tag("JSON"), Ws, Json(v), Ws, Fence>> }

\* Texts without a JSON value, and a JSON value v that prose precedes
NonJsonTexts(v) ==
    { <<>>, <<Prose>>, <<Prose, Json(v)>>, <<Fence, Tag("json"), Ws, Prose>> }

PlanTexts ==
    NonJsonTexts(PlanComplete(<<>>)) \cup { <<Json(v)>> : v \in PlanValues }
        \cup Wrappings(PlanComplete(<<>>))

FixTexts ==
    NonJsonTexts(EmptyDict) \cup { <<Json(v)>> : v \in FixValues }
        \cup Wrappings(EmptyDict)

----------------------------------------------------------------------------
(* SovereignSurgeon: analyze_and_plan and diagnose_error.  Each call runs
   from its start to the await of generate_content_async in one step, and
   from the arrival of the response to its return in another. *)

IdleCall == [op |-> "none", pc |-> "idle", sig |-> NoSignature,
             error_message |-> <<>>, affected_line |-> 0]

NoOutcome == [kind |-> "none"]

\* Calls are numbered in the order they start.
NextCall(c) ==
    /\ calls[c].pc = "idle"
    /\ \A d \in CallIds : d < c => calls[d].pc # "idle"

\* call_signature as the newest record of the ledger
latest_signature(c) == thought_signatures[Len(thought_signatures)]

\* The sig that a call hands to its parser: the local of lines 104 and 329
call_signature(c) == calls[c].sig

\* analyze_and_plan up to the await: lines 103-115
AnalyzeStart(c) ==
    /\ NextCall(c)
    /\ \E n \in ContextLens :
         LET sig == create_signature(
                        "Analyzing codebase structure and generating deployment artifacts",
                        "Full context analysis with Gemini 3 Pro",
                        "Schema validation of output", "low", n \div 4)
         IN  /\ thought_signatures' = ledger_append(thought_signatures, sig)
             /\ calls' = [calls EXCEPT ![c] =
                             [op |-> "analyze", pc |-> "awaiting", sig |-> sig,
                              error_message |-> <<>>, affected_line |-> 0]]
    /\ UNCHANGED <<ingestVars, analyzeVars, clock, prior_signatures, last, sentinelVars>>

\* diagnose_error up to the await: lines 329-341
DiagnoseStart(c) ==
    /\ NextCall(c)
    /\ \E n \in ContextLens, msg \in ErrorMessages :
         LET sig == create_signature(
                        "Diagnosing error in core/api.py:7",
                        "Cross-referencing stack trace with codebase context",
                        "Patch validation and type checking", "medium", n \div 4)
         IN  /\ thought_signatures' = ledger_append(thought_signatures, sig)
             /\ calls' = [calls EXCEPT ![c] =
                             [op |-> "diagnose", pc |-> "awaiting", sig |-> sig,
                              error_message |-> msg,
                              affected_line |-> AffectedLine]]
    /\ UNCHANGED <<ingestVars, analyzeVars, clock, prior_signatures, last, sentinelVars>>

\* analyze_and_plan from the response on: lines 117-120
AnalyzeReturn(c) ==
    /\ calls[c].op = "analyze" /\ calls[c].pc = "awaiting"
    /\ \E text \in PlanTexts :
         last' = [call |-> c, text |-> text,
                  outcome |-> parse_analysis_response(text, call_signature(c))]
    /\ calls' = [calls EXCEPT ![c].pc = "done"]
    /\ UNCHANGED <<ingestVars, analyzeVars, clock, thought_signatures, prior_signatures, sentinelVars>>

\* diagnose_error from the response on: lines 343-345
DiagnoseReturn(c) ==
    /\ calls[c].op = "diagnose" /\ calls[c].pc = "awaiting"
    /\ \E text \in FixTexts :
         last' = [call |-> c, text |-> text,
                  outcome |-> parse_diagnosis_response(
                                  text, clock, StackTrace, calls[c].error_message,
                                  AffectedFile, calls[c].affected_line,
                                  call_signature(c))]
    /\ calls' = [calls EXCEPT ![c].pc = "done"]
    /\ UNCHANGED <<ingestVars, analyzeVars, clock, thought_signatures, prior_signatures, sentinelVars>>

\* generate_content_async raises (the request fails, or response.text does):
\* the exception leaves the call, which has no handler.
RequestFails(c) ==
    /\ calls[c].pc = "awaiting"
    /\ last' = [call |-> c, text |-> <<>>, outcome |-> Raise("EngineError")]
    /\ calls' = [calls EXCEPT ![c].pc = "done"]
    /\ UNCHANGED <<ingestVars, analyzeVars, clock, thought_signatures, prior_signatures, sentinelVars>>

\* Time passes.
Tick ==
    /\ \E s \in StartClocks : s <= clock /\ clock < s + MaxTicks
    /\ clock' = clock + 1
    /\ UNCHANGED <<ingestVars, analyzeVars, surgeonVars, sentinelVars>>

----------------------------------------------------------------------------
(* src/main.py: SentinelState and the endpoints that create and review
   fix proposals.  sentinel_state.thoughts, a log no handler reads, and the
   Socket.IO emits are left out; every await is a point where another
   request may run. *)

\* datetime values of Optional[datetime] fields
DateTime(now) == [t |-> "datetime", at |-> now]

\* The demo FixProposal of simulate_error (lines 390-431); its
\* thought_signature is the literal record of lines 423-430.
DemoSignature ==
    [id |-> <<"S", "I", "G", "-", "A", "1", "B", "2">>, timestamp |-> clock,
     reasoning_step |-> "Analyzed stack trace and cross-referenced with codebase",
     action_taken |-> "Generated null-check patch",
     verification_method |-> "Type checking and unit test simulation",
     risk_level |-> "low", context_tokens_used |-> 45000]

DemoFix(id) ==
    FixProposal(id, clock, "TypeError",
                "Cannot read property 'user_id' of undefined",
                "at getUser (core/api.py:142)\nat handleRequest (server.py:89)",
                "core/api.py", 142,
                JStr("The function get_user() is being called without proper null-checking on the user_id parameter."),
                JFloat(92), "low",
                <<CodePatch(JStr("core/api.py"), JInt(142), JInt(145),
                            JStr("def get_user(user_id):"),
                            JStr("def get_user(user_id: Optional[str] = None):"),
                            JStr("- def get_user(user_id):"))>>,
                EmptyList,
                AssistModeMetadata(
                    JStr("Adds a null-check"), JStr("The crash log shows get_user() was called during a session timeout"),
                    JArr(<<JStr("Callers that relied on silent failure will now get an explicit error")>>),
                    JArr(<<JStr("https://docs.python.org/3/library/typing.html")>>)),
                DemoSignature)

\* Fix ids are f"fix-{utcnow().timestamp()}", a timestamp of microsecond
\* resolution: the n-th proposal created gets the n-th distinct id.
FixIds == 1..MaxFixes

\* FixApprovalRequest.rejection_reason
RejectionReasons == {JNull, JStr("wrong file")}

NoDecision == [action |-> "none"]

\* get_pending_fixes: line 296, the proposals the /fixes listing shows
get_pending_fixes == [f \in DOMAIN pending_fixes |-> pending_fixes[f]]

\* get_system_state: lines 76-82, pending_fixes=list(self.pending_fixes.keys())
get_system_state == [agent_state |-> agent_state, pending_fixes |-> [f \in DOMAIN pending_fixes |-> f]]

\* simulate_error up to its sleeps: line 372
SimulateBegin ==
    /\ Cardinality(DOMAIN pending_fixes) + simulating < MaxFixes
    /\ agent_state' = "STROBE_RED"
    /\ simulating' = simulating + 1
    /\ UNCHANGED <<ingestVars, analyzeVars, clock, surgeonVars, pending_fixes, reviews, decision>>

\* simulate_error after its sleeps: lines 390-433
SimulateCreate ==
    /\ simulating > 0
    /\ LET id == Cardinality(DOMAIN pending_fixes) + 1
       IN  pending_fixes' =
               [f \in DOMAIN pending_fixes \cup {id} |->
                   IF f = id THEN DemoFix(id) ELSE pending_fixes[f]]
    /\ simulating' = simulating - 1
    /\ UNCHANGED <<ingestVars, analyzeVars, clock, surgeonVars, agent_state, reviews, decision>>

\* approve_fix: lines 313-314
ReviewNotFound ==
    /\ \E f \in FixIds \ DOMAIN pending_fixes,
          a \in {"approve", "reject", "modify"} :
         decision' = [action |-> a, fix |-> f, result |-> "404"]
    /\ UNCHANGED <<ingestVars, analyzeVars, clock, surgeonVars, agent_state, pending_fixes, simulating,
                   reviews>>

\* What a reviewer decision may change in a proposal
Reviewed(fix) ==
    [status |-> fix.status, rejection_reason |-> fix.rejection_reason,
     reviewed_at |-> fix.reviewed_at]

\* approve_fix, action approve, up to its first await: lines 316-319.
\* fix is the object the handler keeps a reference to.
ApproveBegin ==
    /\ Len(reviews) < MaxReviews
    /\ \E f \in DOMAIN pending_fixes :
         reviews' = Append(reviews, [fix |-> f, pc |-> "emit"])
    /\ agent_state' = "RAPID_PULSE"
    /\ UNCHANGED <<ingestVars, analyzeVars, clock, surgeonVars, pending_fixes, simulating, decision>>

\* The status that the approve branch assigns: line 325
approved_status == "applied"

\* approve_fix, action approve, from the emits to the sleep: lines 322-328.
\* Every path from here returns FixApprovalResponse(status="applied").
ApproveApply(i) ==
    /\ reviews[i].pc = "emit"
    /\ LET f == reviews[i].fix
           fix == [pending_fixes[f] EXCEPT !.status = approved_status,
                                           !.reviewed_at = DateTime(clock)]
       IN  /\ pending_fixes' = [pending_fixes EXCEPT ![f] = fix]
           /\ decision' = [action |-> "approve", fix |-> f,
                           result |-> "applied",
                           before |-> Reviewed(pending_fixes[f]),
                           after |-> Reviewed(fix)]
    /\ reviews' = [reviews EXCEPT ![i].pc = "sleep"]
    /\ UNCHANGED <<ingestVars, analyzeVars, clock, surgeonVars, agent_state, simulating>>

RemoveAt(seq, i) == SubSeq(seq, 1, i - 1) \o SubSeq(seq, i + 1, Len(seq))

\* approve_fix, action approve, after the sleep: lines 330-338
ApproveFinish(i) ==
    /\ reviews[i].pc = "sleep"
    /\ agent_state' = "SUCCESS"
    /\ reviews' = RemoveAt(reviews, i)
    /\ UNCHANGED <<ingestVars, analyzeVars, clock, surgeonVars, pending_fixes, simulating, decision>>

\* approve_fix, action reject: lines 340-351
Reject ==
    /\ \E f \in DOMAIN pending_fixes, reason \in RejectionReasons :
         LET fix == [pending_fixes[f] EXCEPT !.status = "rejected",
                                             !.rejection_reason = reason,
                                             !.reviewed_at = DateTime(clock)]
         IN  /\ pending_fixes' = [pending_fixes EXCEPT ![f] = fix]
             /\ decision' = [action |-> "reject", fix |-> f,
                             result |-> "rejected",
                             before |-> Reviewed(pending_fixes[f]),
                             after |-> Reviewed(fix)]
    /\ UNCHANGED <<ingestVars, analyzeVars, clock, surgeonVars, agent_state, simulating, reviews>>

\* approve_fix, action modify: lines 353-361
Modify ==
    /\ \E f \in DOMAIN pending_fixes :
         decision' = [action |-> "modify", fix |-> f, result |-> "modified",
                      before |-> Reviewed(pending_fixes[f]),
                      after |-> Reviewed(pending_fixes[f])]
    /\ UNCHANGED <<ingestVars, analyzeVars, clock, surgeonVars, agent_state, pending_fixes, simulating,
                   reviews>>

----------------------------------------------------------------------------
(* src/core/ingestor.py: file names and the directory on disk *)

\* A file or directory name, split as pathlib splits it: ext is the last
\* dot component ("" when there is none) and stem is what precedes it, so
\* ".git" is Name("", ".git") and "main.py" is Name("main", ".py").
Name(stem, ext) == [stem |-> stem, ext |-> ext]

\* Path.suffix: a name that is one leading-dot word has no suffix
suffix(name) == IF name.stem = "" THEN "" ELSE name.ext

\* len(name)
StrLen(s) ==
    CASE s = "" -> 0
      [] s \in {"a", "b", "c", "d", "x"} -> 1
      [] s \in {".py", ".js", ".go", ".db", ".md", "src", "lib", "pkg"} -> 3
      [] s \in {"main", ".txt", ".pyc", ".pyo", ".git", ".env", "venv", "dist", "docs", ".PY"} -> 4
      [] s \in {".json", "build", "hooks", "utils"} -> 5
      [] s \in {"domain", "server"} -> 6
      [] s \in {"package"} -> 7
      [] s \in {"__main__", "__init__"} -> 8
      [] s \in {"Dockerfile"} -> 10
      [] s \in {"requirements"} -> 12
      [] s \in {"node_modules"} -> 12

NameLen(name) == StrLen(name.stem) + StrLen(name.ext)

\* RepositoryIngestor.DEFAULT_IGNORE
DEFAULT_IGNORE ==
    {Name("", ".git"), Name("__pycache__", ""), Name("node_modules", ""),
     Name("venv", ""), Name("", ".venv"), Name("env", ""), Name("", ".env"),
     Name("", ".idea"), Name("", ".vscode"), Name("dist", ""),
     Name("build", ""), Name("", ".next"), Name("coverage", ""),
     Name("", ".pytest_cache"), Name("", ".mypy_cache"), Name("*", ".pyc"),
     Name("*", ".pyo"), Name("*", ".egg-info"), Name("", ".DS_Store"),
     Name("Thumbs", ".db")}

\* RepositoryIngestor.CODE_EXTENSIONS
CODE_EXTENSIONS ==
    {".py", ".js", ".ts", ".tsx", ".jsx", ".java", ".go", ".rs", ".rb",
     ".php", ".c", ".cpp", ".h", ".hpp", ".cs", ".swift", ".kt", ".scala",
     ".vue", ".svelte", ".html", ".css", ".scss", ".sass", ".less", ".sql",
     ".sh", ".bash", ".zsh", ".ps1", ".yaml", ".yml", ".json", ".toml",
     ".ini", ".cfg", ".conf", ".md", ".rst", ".txt", ".dockerfile", ".tf",
     ".hcl"}

\* RepositoryIngestor.DEPENDENCY_FILES (the keys)
DEPENDENCY_FILES ==
    {Name("requirements", ".txt"), Name("Pipfile", ""),
     Name("pyproject", ".toml"), Name("setup", ".py"),
     Name("package", ".json"), Name("yarn", ".lock"),
     Name("pnpm-lock", ".yaml"), Name("go", ".mod"), Name("Cargo", ".toml"),
     Name("Gemfile", ""), Name("pom", ".xml"), Name("build", ".gradle"),
     Name("composer", ".json")}

\* RepositoryIngestor.ENTRY_POINTS: language -> paths tried in order
ENTRY_POINTS(language) ==
    CASE language = "python" ->
            <<<<Name("main", ".py")>>, <<Name("app", ".py")>>,
              <<Name("run", ".py")>>, <<Name("server", ".py")>>,
              <<Name("__main__", ".py")>>, <<Name("manage", ".py")>>,
              <<Name("wsgi", ".py")>> >>
      [] language = "javascript" ->
            <<<<Name("index", ".js")>>, <<Name("main", ".js")>>,
              <<Name("app", ".js")>>, <<Name("server", ".js")>>,
              <<Name("index", ".ts")>>, <<Name("main", ".ts")>> >>
      [] language = "go" ->
            <<<<Name("main", ".go")>>, <<Name("cmd", ""), Name("main", ".go")>> >>
      [] language = "rust" ->
            <<<<Name("main", ".rs")>>, <<Name("lib", ".rs")>> >>
      [] language = "java" ->
            <<<<Name("Main", ".java")>>, <<Name("Application", ".java")>> >>
      [] OTHER -> <<>>

\* _should_ignore: the name is in the deny-set, or ends with what follows
\* the star of one of its patterns
should_ignore(name) ==
    \/ name \in DEFAULT_IGNORE
    \/ \E pattern \in DEFAULT_IGNORE : pattern.stem = "*" /\ name.ext = pattern.ext

\* _is_code_file
is_code_file(name) ==
    \/ lower(suffix(name)) \in CODE_EXTENSIONS
    \/ name.ext = "" /\ lower(name.stem) \in {"dockerfile", "makefile", "rakefile", "gemfile", "procfile"}

\* _detect_language
detect_language(name) ==
    LET s == lower(suffix(name)) IN
    CASE s = ".py" -> "python"
      [] s \in {".js", ".jsx"} -> "javascript"
      [] s \in {".ts", ".tsx"} -> "typescript"
      [] s = ".java" -> "java"
      [] s = ".go" -> "go"
      [] s = ".rs" -> "rust"
      [] s = ".rb" -> "ruby"
      [] s = ".php" -> "php"
      [] s = ".c" -> "c"
      [] s = ".cpp" -> "cpp"
      [] s = ".cs" -> "csharp"
      [] s = ".swift" -> "swift"
      [] s = ".kt" -> "kotlin"
      [] s = ".scala" -> "scala"
      [] s = ".vue" -> "vue"
      [] s = ".svelte" -> "svelte"
      [] s = ".html" -> "html"
      [] s = ".css" -> "css"
      [] s = ".sql" -> "sql"
      [] s = ".sh" -> "shell"
      [] s \in {".yaml", ".yml"} -> "yaml"
      [] s = ".json" -> "json"
      [] s = ".tf" -> "terraform"
      [] s = ".hcl" -> "hcl"
      [] s = ".md" -> "markdown"
      [] OTHER -> "unknown"

\* What a file holds, as far as the ingestor looks at it:
\*   chars    len() of the text that read() returns
\*   text     the characters the port scanner runs over
\*   lines    the lines of a requirements-style manifest
\*   package  json.loads of the text, as [ok, v]
\*   patterns the framework signatures re.search finds in the text
\*   env      the variable names of the environment references in the text
Content(chars, text, lines, package, patterns, env) == [chars |-> chars, text |-> text, lines |-> lines, package |-> package, patterns |-> patterns, env |-> env]

\* A regular file: stat_ok is whether stat() succeeds on it, read_ok whether
\* open() and read() do
File(name, size, stat_ok, read_ok, content) == [name |-> name, size |-> size, stat_ok |-> stat_ok, read_ok |-> read_ok, content |-> content]

\* A directory: its files and its subdirectories, each in the order the
\* operating system lists them
Dir(name, files, dirs) == [name |-> name, files |-> files, dirs |-> dirs]

\* repo_path does not exist
NoRepo == [missing |-> TRUE]

Exists(d) == "missing" \notin DOMAIN d

RECURSIVE Flatten(_)
Flatten(seqs) == IF seqs = <<>> THEN <<>> ELSE Head(seqs) \o Flatten(Tail(seqs))

\* keep_dirs without the pruning
keep_all_dirs(dirs) == dirs

\* dirs[:] = [d for d in dirs if not self._should_ignore(root_path / d)]
keep_dirs(dirs) == SelectSeq(dirs, LAMBDA d : ~should_ignore(d.name))

\* os.walk(repo_path), top down, with the callers' pruning of dirs: one
\* entry per directory entered, [root, dirs, files], root relative to
\* repo_path
RECURSIVE os_walk(_, _)
os_walk(dir, root) ==
    LET dirs == keep_dirs(dir.dirs) IN
    <<[root |-> root, dirs |-> [i \in DOMAIN dirs |-> dirs[i].name], files |-> dir.files]>>
    \o Flatten([i \in DOMAIN dirs |-> os_walk(dirs[i], Append(root, dirs[i].name))])

\* for root, dirs, files in os.walk(...): for file_name in files: the files
\* in the order the loops reach them, each with its path relative to
\* repo_path
walk_files(dir) ==
    LET entries == os_walk(dir, <<>>) IN
    Flatten([e \in DOMAIN entries |-> [i \in DOMAIN entries[e].files |-> [path |-> Append(entries[e].root, entries[e].files[i].name), file |-> entries[e].files[i]]]])

\* len(str(relative_path))
RECURSIVE PathLen(_)
PathLen(path) ==
    IF path = <<>> THEN 0
    ELSE IF Len(path) = 1 THEN NameLen(path[1])
    ELSE NameLen(Head(path)) + 1 + PathLen(Tail(path))

----------------------------------------------------------------------------
(* get_full_context *)

\* self._context_cache is None
NoCache == [t |-> "none"]

\* A context text: "\n".join(context_parts), kept as its parts
Text(parts) == [t |-> "str", parts |-> parts]

\* if self._context_cache is not None: return self._context_cache
cache_hit_if_truthy(cache) == cache.t = "str" /\ cache.parts # <<>>

cache_hit(cache) == cache.t = "str"

\* the file is read into the context: not ignored, a code file, readable
in_context(visit) ==
    /\ ~should_ignore(visit.file.name)
    /\ is_code_file(visit.file.name)
    /\ visit.file.read_ok

\* f"--- FILE: {relative_path} ---\n{content}\n--- END FILE: {relative_path} ---\n"
context_part(visit) == [path |-> visit.path, content |-> visit.file.content]

\* the walk of get_full_context over the directory
read_context(dir) ==
    LET visits == SelectSeq(walk_files(dir), in_context) IN
    Text([i \in DOMAIN visits |-> context_part(visits[i])])

\* get_full_context(): the outcome, and the cache it leaves
get_full_context(cache, dir) ==
    IF cache_hit(cache) THEN [kind |-> "return", text |-> cache, cache |-> cache]
    ELSE IF ~Exists(dir) THEN [kind |-> "raise", exc |-> "ValueError", cache |-> cache]
    ELSE [kind |-> "return", text |-> read_context(dir), cache |-> read_context(dir)]

\* len(part) for one part of the context
PartLen(part) == 35 + 2 * PathLen(part.path) + part.content.chars

RECURSIVE SumLen(_)
SumLen(parts) == IF parts = <<>> THEN 0 ELSE PartLen(Head(parts)) + SumLen(Tail(parts))

\* len(context)
TextLen(text) == IF text.parts = <<>> THEN 0 ELSE SumLen(text.parts) + Len(text.parts) - 1

----------------------------------------------------------------------------
(* The scanners of build_repo_map *)

IsDigit(ch) == \E i \in DOMAIN DigitChars : DigitChars[i] = ch

DigitVal(ch) == (CHOOSE i \in DOMAIN DigitChars : DigitChars[i] = ch) - 1

\* int(match) for a sequence of digit characters
RECURSIVE int(_)
int(digits) ==
    IF digits = <<>> THEN 0
    ELSE 10 * int(SubSeq(digits, 1, Len(digits) - 1)) + DigitVal(digits[Len(digits)])

\* the number of digit characters of text in a row from position i on
RECURSIVE DigitRun(_, _)
DigitRun(text, i) ==
    IF i <= Len(text) /\ IsDigit(text[i]) THEN 1 + DigitRun(text, i + 1) ELSE 0

\* \s*: the first position from i on that holds no whitespace
RECURSIVE SkipSpace(_, _)
SkipSpace(text, i) ==
    IF i <= Len(text) /\ text[i] = " " THEN SkipSpace(text, i + 1) ELSE i

\* the word port, in any letter case (re.IGNORECASE)
PortWords == {"port", "PORT", "Port"}

ListenWords == {"listen(", "LISTEN("}

NoMatch == [ok |-> FALSE, end |-> 0, group |-> <<>>]

\* (\d{4,5}) at position i: greedy, five digits when there are five
Digits45(text, i) ==
    LET n == IF DigitRun(text, i) >= 5 THEN 5 ELSE DigitRun(text, i) IN
    IF n >= 4 THEN [ok |-> TRUE, end |-> i + n - 1, group |-> SubSeq(text, i, i + n - 1)]
    ELSE NoMatch

\* port\s*[=:]\s*(\d{4,5}) matched at position i
MatchPortAssign(text, i) ==
    LET j == SkipSpace(text, i + 1) IN
    IF text[i] \in PortWords /\ j <= Len(text) /\ text[j] \in {"=", ":"}
    THEN Digits45(text, SkipSpace(text, j + 1))
    ELSE NoMatch

\* listen\((\d{4,5}) matched at position i
MatchListen(text, i) ==
    IF text[i] \in ListenWords THEN Digits45(text, i + 1) ELSE NoMatch

\* :(\d{4,5})[/"'] matched at position i: five digits and a closing
\* character, or else four digits and a closing character
MatchUrlPort(text, i) ==
    LET run == DigitRun(text, i + 1)
        closes(k) == k <= Len(text) /\ text[k] \in {"/", "\"", "'"}
    IN  IF text[i] # ":" THEN NoMatch
        ELSE IF run >= 5 /\ closes(i + 6)
        THEN [ok |-> TRUE, end |-> i + 6, group |-> SubSeq(text, i + 1, i + 5)]
        ELSE IF run >= 4 /\ closes(i + 5)
        THEN [ok |-> TRUE, end |-> i + 5, group |-> SubSeq(text, i + 1, i + 4)]
        ELSE NoMatch

\* The four patterns of _find_ports, in list order; the second is the
\* first in upper case, which re.IGNORECASE makes the same pattern.
PortPatterns == 1..4

MatchAt(pattern, text, i) ==
    CASE pattern \in {1, 2} -> MatchPortAssign(text, i)
      [] pattern = 3 -> MatchListen(text, i)
      [] pattern = 4 -> MatchUrlPort(text, i)

\* re.findall(pattern, content): the groups of the non-overlapping matches,
\* left to right
RECURSIVE findall(_, _, _)
findall(pattern, text, i) ==
    IF i > Len(text) THEN <<>>
    ELSE IF MatchAt(pattern, text, i).ok
    THEN <<MatchAt(pattern, text, i).group>> \o findall(pattern, text, MatchAt(pattern, text, i).end + 1)
    ELSE findall(pattern, text, i + 1)

\* if 1024 <= port <= 65535
valid_port(port) == 1024 <= port /\ port <= 65535

\* _find_ports
find_ports(text) ==
    LET matches == Flatten([p \in PortPatterns |-> findall(p, text, 1)]) IN
    {port \in {int(matches[i]) : i \in DOMAIN matches} : valid_port(port)}

\* _find_env_vars: the names captured by the five patterns
find_env_vars(content) == {content.env[i] : i \in DOMAIN content.env}

\* the framework table of _detect_framework, in dict order
FrameworkTable ==
    <<[framework |-> "FastAPI", patterns |-> {"from fastapi import", "FastAPI("}],
      [framework |-> "Flask", patterns |-> {"from flask import", "Flask(__name__)"}],
      [framework |-> "Django", patterns |-> {"from django", "DJANGO_SETTINGS_MODULE"}],
      [framework |-> "Express", patterns |-> {"require('express')", "from 'express'"}],
      [framework |-> "Next.js", patterns |-> {"from 'next", "next/"}],
      [framework |-> "React", patterns |-> {"from 'react'", "import React"}],
      [framework |-> "Vue", patterns |-> {"from 'vue'", "createApp"}],
      [framework |-> "Spring", patterns |-> {"@SpringBootApplication", "springframework"}],
      [framework |-> "Gin", patterns |-> {"github.com/gin-gonic/gin"}],
      [framework |-> "Actix", patterns |-> {"actix_web", "actix-web"}]>>

\* _detect_framework, the table read from its end
detect_framework_last(content) ==
    LET hits == {i \in DOMAIN FrameworkTable : FrameworkTable[i].patterns \cap content.patterns # {}} IN
    IF hits = {} THEN JNull ELSE JStr(FrameworkTable[CHOOSE i \in hits : \A j \in hits : j <= i].framework)

\* _detect_framework: the first framework of the table one of whose
\* patterns is found in the content
detect_framework(content) ==
    LET hits == {i \in DOMAIN FrameworkTable : FrameworkTable[i].patterns \cap content.patterns # {}} IN
    IF hits = {} THEN JNull ELSE JStr(FrameworkTable[Min(hits)].framework)

----------------------------------------------------------------------------
(* _parse_dependencies *)

\* line.strip() for a manifest line, a sequence of tokens
RECURSIVE line_lstrip(_)
line_lstrip(line) ==
    IF line # <<>> /\ Head(line) = " " THEN line_lstrip(Tail(line)) ELSE line

RECURSIVE line_rstrip(_)
line_rstrip(line) ==
    IF line # <<>> /\ line[Len(line)] = " " THEN line_rstrip(SubSeq(line, 1, Len(line) - 1)) ELSE line

line_strip(line) == line_rstrip(line_lstrip(line))

\* s.split(sep)[0]: what precedes the first sep, all of s when there is none
RECURSIVE split_head(_, _)
split_head(s, sep) ==
    IF s = <<>> \/ Head(s) = sep THEN <<>> ELSE <<Head(s)>> \o split_head(Tail(s), sep)

\* what follows the first sep
split_rest(s, sep) == SubSeq(s, Len(split_head(s, sep)) + 2, Len(s))

\* one line of requirements.txt that is neither blank nor a comment
requirement(line, filename) ==
    LET parts0 == split_head(line, "==")
        name == split_head(split_head(split_head(parts0, ">="), "<="), "[")
        version == IF Len(parts0) < Len(line) THEN JStr(split_head(split_rest(line, "=="), "==")) ELSE JNull
    IN  DependencyInfo(JObj([name |-> JStr(name), version |-> version, source |-> JStr(filename)]))

\* the requirements.txt branch
parse_requirements(lines, filename) ==
    LET stripped == [i \in DOMAIN lines |-> line_strip(lines[i])]
        kept == SelectSeq(stripped, LAMBDA line : line # <<>> /\ Head(line) # "#")
    IN  [i \in DOMAIN kept |-> requirement(kept[i], filename)]

\* the keys of a JSON object in the order the parser met them
RECURSIVE KeySeq(_)
KeySeq(keys) ==
    IF keys = {} THEN <<>>
    ELSE LET k == CHOOSE x \in keys : TRUE IN <<k>> \o KeySeq(keys \ {k})

\* for name, version in data[dep_type].items(): the dependencies appended
\* until one is refused, and whether the loop was left by an exception
package_section(data, dep_type, filename) ==
    IF data.t \in {"null", "int", "float", "bool"} THEN [deps |-> <<>>, raised |-> TRUE]
    ELSE IF data.t = "str" THEN [deps |-> <<>>, raised |-> data.s = dep_type]
    ELSE IF data.t = "arr" THEN [deps |-> <<>>, raised |-> \E i \in DOMAIN data.a : data.a[i] = JStr(dep_type)]
    ELSE IF dep_type \notin DOMAIN data.o THEN [deps |-> <<>>, raised |-> FALSE]
    ELSE IF data.o[dep_type].t # "obj" THEN [deps |-> <<>>, raised |-> TRUE]
    ELSE LET items == data.o[dep_type].o
             names == KeySeq(DOMAIN items)
             bad == {i \in DOMAIN names : ~OptStrOk(items[names[i]])}
             n == IF bad = {} THEN Len(names) ELSE Min(bad) - 1
         IN  [deps |-> [i \in 1..n |-> DependencyInfo(JObj([name |-> JStr(names[i]), version |-> items[names[i]], source |-> JStr(filename)]))],
              raised |-> bad # {}]

\* the package.json branch
parse_package(package, filename) ==
    IF ~package.ok THEN <<>>
    ELSE LET first == package_section(package.v, "dependencies", filename) IN
         IF first.raised THEN first.deps
         ELSE first.deps \o package_section(package.v, "devDependencies", filename).deps

\* _parse_dependencies(path, filename): nothing when the file cannot be read
parse_dependencies(file) ==
    IF ~file.read_ok THEN <<>>
    ELSE IF file.name = Name("requirements", ".txt") THEN parse_requirements(file.content.lines, file.name)
    ELSE IF file.name = Name("package", ".json") THEN parse_package(file.content.package, file.name)
    ELSE <<>>

----------------------------------------------------------------------------
(* build_repo_map *)

\* self.repo_name
RepoName == <<Name("repo", "")>>

\* the str "unknown" where a path is expected
UnknownPath == <<Name("unknown", "")>>

\* the locals of build_repo_map before the walk. language_counts is a dict:
\* its entries are kept in insertion order.
NoFiles == [file_mappings |-> <<>>, language_counts |-> <<>>, detected_deps |-> <<>>, detected_env_vars |-> {}, detected_ports |-> {}, dependency_file |-> JNull, framework |-> JNull]

\* language_counts[language] = language_counts.get(language, 0) + 1
count_language(counts, language) ==
    IF \E i \in DOMAIN counts : counts[i].language = language
    THEN [i \in DOMAIN counts |-> IF counts[i].language = language THEN [counts[i] EXCEPT !.count = @ + 1] ELSE counts[i]]
    ELSE Append(counts, [language |-> language, count |-> 1])

\* the statements of the try block up to the open(): the language is
\* counted, the mapping appended, a manifest recorded
map_file(acc, visit) ==
    LET language == detect_language(visit.file.name)
        mapping == FileMapping(JObj([path |-> JStr(visit.path), language |-> JStr(language), size_bytes |-> JInt(visit.file.size)]))
        manifest == visit.file.name \in DEPENDENCY_FILES
    IN  [acc EXCEPT !.language_counts = count_language(@, language),
                    !.file_mappings = Append(@, mapping),
                    !.dependency_file = IF manifest THEN JStr(visit.path) ELSE @,
                    !.detected_deps = IF manifest THEN @ \o parse_dependencies(visit.file) ELSE @]

\* the with block: the content is scanned
scan_file(acc, visit) ==
    [acc EXCEPT !.detected_env_vars = @ \cup find_env_vars(visit.file.content),
                !.detected_ports = @ \cup find_ports(visit.file.content.text),
                !.framework = IF @ = JNull THEN detect_framework(visit.file.content) ELSE @]

\* one turn of the inner loop: the file is passed over when it is ignored or
\* no code file; stat() raising leaves the locals as they were; open()
\* raising leaves them as the statements before it made them
ingest_file(acc, visit) ==
    IF should_ignore(visit.file.name) \/ ~is_code_file(visit.file.name) THEN acc
    ELSE IF ~visit.file.stat_ok THEN acc
    ELSE IF ~visit.file.read_ok THEN map_file(acc, visit)
    ELSE scan_file(map_file(acc, visit), visit)

RECURSIVE ingest_files(_, _)
ingest_files(acc, visits) ==
    IF visits = <<>> THEN acc ELSE ingest_files(ingest_file(acc, Head(visits)), Tail(visits))

\* max(language_counts, key=language_counts.get): the first key, in the
\* dict's order, whose count is the greatest
primary_language_last(counts) ==
    LET best == {i \in DOMAIN counts : \A j \in DOMAIN counts : counts[j].count <= counts[i].count} IN
    IF counts = <<>> THEN "unknown" ELSE counts[CHOOSE i \in best : \A j \in best : j <= i].language

primary_language_of(counts) ==
    LET best == {i \in DOMAIN counts : \A j \in DOMAIN counts : counts[j].count <= counts[i].count} IN
    IF counts = <<>> THEN "unknown" ELSE counts[Min(best)].language

\* Path.exists() for a path relative to the directory
RECURSIVE path_exists(_, _)
path_exists(dir, path) ==
    IF Len(path) = 1
    THEN \/ \E i \in DOMAIN dir.files : dir.files[i].name = path[1] /\ dir.files[i].stat_ok
         \/ \E i \in DOMAIN dir.dirs : dir.dirs[i].name = path[1]
    ELSE \E i \in DOMAIN dir.dirs : dir.dirs[i].name = Head(path) /\ path_exists(dir.dirs[i], Tail(path))

\* 'main' in file.name.lower()
contains_main(name) == lower(name.stem) \in {"main", "__main__", "domain"}

\* _find_entry_point
find_entry_point(language, dir) ==
    LET entries == ENTRY_POINTS(language)
        found == {i \in DOMAIN entries : path_exists(dir, entries[i])}
        mains == {i \in DOMAIN dir.files : dir.files[i].stat_ok /\ contains_main(dir.files[i].name)}
    IN  IF found # {} THEN entries[Min(found)]
        ELSE IF mains # {} THEN <<dir.files[Min(mains)].name>>
        ELSE UnknownPath

\* list(a_set): the elements in the order the set iterates them
RECURSIVE list(_)
list(S) ==
    IF S = {} THEN <<>>
    ELSE LET x == CHOOSE y \in S : TRUE IN <<x>> \o list(S \ {x})

\* total_files=len(file_mappings), counting the files with a size only
count_nonempty_files(file_mappings) == Cardinality({i \in DOMAIN file_mappings : file_mappings[i].size_bytes > 0})

\* total_files=len(file_mappings)
count_files(file_mappings) == Len(file_mappings)

\* build_repo_map(): the outcome, the cache it leaves and the directories
\* its walk entered
build_repo_map(cache, dir) ==
    IF ~Exists(dir) THEN [kind |-> "raise", exc |-> "ValueError", cache |-> cache]
    ELSE LET acc == ingest_files(NoFiles, walk_files(dir))
             primary_language == primary_language_of(acc.language_counts)
             context == get_full_context(cache, dir)
         IN  [kind |-> "return",
              repo_map |-> RepoMap(JStr(RepoName), JStr(primary_language), acc.framework,
                                   JStr(find_entry_point(primary_language, dir)),
                                   IF acc.dependency_file = JNull THEN JStr(UnknownPath) ELSE acc.dependency_file,
                                   acc.detected_deps, acc.file_mappings,
                                   JInt(count_files(acc.file_mappings)),
                                   JInt(TextLen(context.text) \div 4), EmptyDict,
                                   JArr([i \in DOMAIN list(acc.detected_env_vars) |-> JStr(list(acc.detected_env_vars)[i])]),
                                   JArr([i \in DOMAIN list(acc.detected_ports) |-> JInt(list(acc.detected_ports)[i])])),
              cache |-> context.cache,
              language_counts |-> acc.language_counts,
              entered |-> [i \in DOMAIN os_walk(dir, <<>>) |-> os_walk(dir, <<>>)[i].root]]

----------------------------------------------------------------------------
(* Repositories the ingestor is run on *)

NotJson == [ok |-> FALSE, v |-> JNull]

Plain == Content(40, <<>>, <<>>, NotJson, {}, <<>>)

\* a server module: it names a port, a framework and an environment variable
ServerCode == Content(120, <<"port", " ", "=", " ", "8", "0", "8", "0">>, <<>>, NotJson, {"import React", "from flask import"}, <<"DATABASE_URL">>)

RequirementLines == <<<<"flask", "==", "2.0">>, <<"#", " ", "pinned">>, <<>>, <<" ", "requests", ">=", "2", " ">>>>

PackageData == JObj([dependencies |-> JObj([express |-> JStr("4.18")]), devDependencies |-> JObj([jest |-> JInt(29)])])

Src(stem, ext) == File(Name(stem, ext), 40, TRUE, TRUE, Plain)

\* stat() succeeds, open() raises PermissionError
Unreadable(stem, ext) == File(Name(stem, ext), 40, TRUE, FALSE, Plain)

\* a dangling symbolic link: stat() and open() raise FileNotFoundError
Dangling(stem, ext) == File(Name(stem, ext), 0, FALSE, FALSE, Plain)

Server(stem, ext) == File(Name(stem, ext), 120, TRUE, TRUE, ServerCode)

Requirements(read_ok) == File(Name("requirements", ".txt"), 30, TRUE, read_ok, Content(30, <<>>, RequirementLines, NotJson, {}, <<>>))

PackageJson == File(Name("package", ".json"), 60, TRUE, TRUE, Content(60, <<":", "4", "1", "8", "0", "\"">>, <<>>, [ok |-> TRUE, v |-> PackageData], {}, <<>>))

Leaf(stem, ext, files) == Dir(Name(stem, ext), files, <<>>)

Root(files, dirs) == Dir(Name("repo", ""), files, dirs)

\* deny-set directories at the root, below a source directory and with
\* directories of their own
NestedTree ==
    Root(<<Server("main", ".py"), Src("a", ".js")>>,
         <<Dir(Name("src", ""), <<Src("b", ".py"), Src("c", ".pyc")>>,
               <<Dir(Name("", ".git"), <<Src("x", ".py")>>, <<Leaf("hooks", "", <<Src("d", ".py")>>)>>),
                 Leaf("lib", "", <<Src("domain", ".py"), File(Name("__init__", ".py"), 0, TRUE, TRUE, Content(0, <<>>, <<>>, NotJson, {}, <<>>))>>)>>),
           Dir(Name("node_modules", ""), <<Src("a", ".js")>>, <<Leaf("pkg", "", <<Src("b", ".js"), PackageJson>>)>>)>>)

\* python and javascript with two files each, python met first and
\* javascript the first to count two
TieTree == Root(<<Src("a", ".py"), Src("b", ".js"), Src("c", ".js"), Src("d", ".py")>>, <<>>)

ManifestTree == Root(<<Requirements(TRUE), Src("main", ".py"), PackageJson>>, <<>>)

ManifestTreeReversed == Root(<<PackageJson, Src("server", ".js"), Requirements(TRUE)>>, <<>>)

UnreadableManifestTree == Root(<<Requirements(FALSE), Src("a", ".py")>>, <<>>)

FaultTree == Root(<<Unreadable("a", ".py"), Dangling("b", ".js"), Src("c", ".js")>>, <<>>)

FaultTreeClean == Root(<<Src("c", ".js")>>, <<>>)

\* nothing the ingestor reads: the context of this repository is empty
NoCodeTree == Root(<<Src("Thumbs", ".db"), Src("x", ".pyc")>>, <<Leaf("", ".git", <<Src("a", ".py")>>)>>)

EmptyTree == Root(<<>>, <<>>)

NoEntryTree == Root(<<Src("a", ".go")>>, <<Leaf("src", "", <<Src("main", ".go")>>)>>)

\* contents with framework signatures: of Express and Next.js, of FastAPI
ExpressCode == Content(80, <<>>, <<>>, NotJson, {"next/", "require('express')"}, <<>>)

FastApiCode == Content(80, <<>>, <<>>, NotJson, {"FastAPI("}, <<>>)

\* the walk meets a file without signatures, an ignored file and an
\* unreadable file with signatures, then the Express file, then FastAPI ones
FrameworkTree ==
    Root(<<Src("a", ".py"), File(Name("x", ".pyc"), 80, TRUE, TRUE, FastApiCode), File(Name("b", ".py"), 80, TRUE, FALSE, FastApiCode),
           File(Name("server", ".js"), 80, TRUE, TRUE, ExpressCode), File(Name("main", ".py"), 80, TRUE, TRUE, FastApiCode)>>,
         <<Leaf("lib", "", <<Server("c", ".py")>>)>>)

RepoTrees == {NestedTree, TieTree, ManifestTree, ManifestTreeReversed, UnreadableManifestTree, FaultTree, FaultTreeClean, NoCodeTree, EmptyTree, NoEntryTree, FrameworkTree}

\* Contents the port scanner is run on: a lead-in, a numeric literal and
\* what follows it, MaxLiterals times over
PortLeads == {<<"port", "=">>, <<"PORT", " ", ":", " ">>, <<"listen(">>, <<":">>, <<"x", "=">>, <<"port", " ">>}

PortLiterals == {Decimal(80), Decimal(999), Decimal(1023), Decimal(1024), Decimal(8080), Decimal(65535), Decimal(65536), Decimal(99999), Decimal(123456), <<"0">> \o Decimal(8080)}

PortTails == {<<>>, <<"/">>, <<"\"">>, <<"x">>}

PortSegments == {lead \o literal \o tail : lead \in PortLeads, literal \in PortLiterals, tail \in PortTails}

RECURSIVE PortTextsOf(_)
PortTextsOf(n) ==
    IF n = 0 THEN {<<>>}
    ELSE PortTextsOf(n - 1) \cup {text \o segment : text \in PortTextsOf(n - 1), segment \in PortSegments}

PortTexts == PortTextsOf(MaxLiterals)

----------------------------------------------------------------------------
(* One RepositoryIngestor instance and the directory it works on *)

NoIngest == [op |-> "none", disk |-> NoRepo, cache |-> NoCache, outcome |-> NoOutcome, first_text |-> NoCache]

NoScan == [text |-> <<>>, ports |-> {}, done |-> FALSE]

\* the first text get_full_context returned on this instance
FirstText(outcome) ==
    IF ingest.first_text = NoCache /\ outcome.kind = "return" THEN outcome.cache ELSE ingest.first_text

\* clone(): what is at repo_path is removed and the repository cloned there;
\* the cache is left as it is
Clone ==
    /\ \E tree \in RepoTrees : disk' = tree
    /\ UNCHANGED <<context_cache, ingest, scan, extract, analyzeVars, clock, surgeonVars, sentinelVars>>

\* cleanup()
Cleanup ==
    /\ Exists(disk)
    /\ disk' = NoRepo
    /\ UNCHANGED <<context_cache, ingest, scan, extract, analyzeVars, clock, surgeonVars, sentinelVars>>

\* files are added, changed or removed on disk by something else
DiskChanges ==
    /\ Exists(disk)
    /\ \E tree \in RepoTrees \ {disk} : disk' = tree
    /\ UNCHANGED <<context_cache, ingest, scan, extract, analyzeVars, clock, surgeonVars, sentinelVars>>

GetFullContext ==
    LET outcome == get_full_context(context_cache, disk) IN
    /\ context_cache' = outcome.cache
    /\ ingest' = [op |-> "get_full_context", disk |-> disk, cache |-> context_cache, outcome |-> outcome, first_text |-> FirstText(outcome)]
    /\ UNCHANGED <<disk, scan, extract, analyzeVars, clock, surgeonVars, sentinelVars>>

BuildRepoMap ==
    LET outcome == build_repo_map(context_cache, disk) IN
    /\ context_cache' = outcome.cache
    /\ ingest' = [op |-> "build_repo_map", disk |-> disk, cache |-> context_cache, outcome |-> outcome, first_text |-> FirstText(outcome)]
    /\ UNCHANGED <<disk, scan, extract, analyzeVars, clock, surgeonVars, sentinelVars>>

\* _find_ports(content)
FindPorts ==
    /\ \E text \in PortTexts : scan' = [text |-> text, ports |-> find_ports(text), done |-> TRUE]
    /\ UNCHANGED <<disk, context_cache, ingest, extract, analyzeVars, clock, surgeonVars, sentinelVars>>

----------------------------------------------------------------------------
(* Manifests the dependency extractor is run on *)

\* A line of requirements.txt is a sequence of tokens: a word (a package
\* name, an extra, a version), one of the version operators, a bracket, a
\* comma, a blank or the comment sign.
VersionOperators == {"==", ">=", "<=", "<", ">", "~=", "!="}

PackageNames == {<<"flask">>}

Extras == {<<>>, <<"[", "async", "]">>}

VersionPins == {<<>>, <<"==", "2.0.1">>, <<">=", "2.0">>, <<"<=", "2.0">>, <<"<", "3">>, <<">", "1">>, <<"~=", "2.0">>, <<"!=", "2.0">>, <<">=", "1", ",", "==", "2.0.1">>}

Margins == {<<>>, <<" ">>}

\* lines that are blank, comments, or begin with a version operator
OddLines == {<<>>, <<" ">>, <<"#", " ", "flask", "==", "1">>, <<"==", "2.0.1">>, <<">=", "2.0">>, <<"[", "async", "]">>}

RequirementLinesOf == {margin \o name \o extras \o pin \o margin : margin \in Margins, name \in PackageNames, extras \in Extras, pin \in VersionPins} \cup OddLines

RECURSIVE ManifestTextsOf(_)
ManifestTextsOf(n) ==
    IF n = 0 THEN {<<>>}
    ELSE ManifestTextsOf(n - 1) \cup {Append(text, line) : text \in ManifestTextsOf(n - 1), line \in RequirementLinesOf}

\* json.loads of a package.json: the two groups, a group that is no object,
\* a version that is no str, a package whose name is the empty str
PackageValues ==
    {PackageData,
     JObj([dependencies |-> JObj([express |-> JStr("4.18")])]),
     JObj([devDependencies |-> JObj([x \in {""} |-> JStr("1.0")])]),
     JObj([dependencies |-> JArr(<<JStr("express")>>)]),
     EmptyDict, EmptyList}

ManifestFiles ==
    {File(Name("requirements", ".txt"), 30, TRUE, read_ok, Content(30, <<>>, lines, NotJson, {}, <<>>)) : read_ok \in BOOLEAN, lines \in ManifestTextsOf(MaxLines)}
    \cup {File(Name("package", ".json"), 60, TRUE, TRUE, Content(60, <<>>, <<>>, package, {}, <<>>)) : package \in {[ok |-> TRUE, v |-> v] : v \in PackageValues} \cup {NotJson}}
    \cup {File(Name("setup", ".py"), 40, TRUE, TRUE, Plain)}

NoExtract == [file |-> File(Name("", ""), 0, FALSE, FALSE, Plain), deps |-> <<>>, done |-> FALSE]

\* the manifest a behaviour starts with, not yet parsed
Unparsed(file) == [file |-> file, deps |-> <<>>, done |-> FALSE]

\* _parse_dependencies(path, filename)
ParseDependencies ==
    /\ ~extract.done
    /\ extract.file \in ManifestFiles
    /\ extract' = [file |-> extract.file, deps |-> parse_dependencies(extract.file), done |-> TRUE]
    /\ UNCHANGED <<disk, context_cache, ingest, scan, analyzeVars, clock, surgeonVars, sentinelVars>>

----------------------------------------------------------------------------
(* src/main.py: analyze_repository *)

\* os.getenv("GEMINI_API_KEY"): "none" is the variable not being set (None),
\* "" is the variable set to the empty string
ApiKeys == {"none", "", "key"}

\* the check as: if api_key is None
api_key_is_none(key) == key = "none"

\* if not api_key
api_key_missing(key) == key \in {"none", ""}

\* current_repo_map and current_deployment_plan are None
NoPlan == [stored |-> FALSE]

NoAnswer == [request |-> 0, status |-> "none"]

NoDeployed == [status |-> "none"]

AnalysisIds == 1..MaxAnalyses

IdleAnalysis == [pc |-> "idle", ledger |-> <<>>, tree |-> NoRepo, context |-> NoOutcome]

\* what git clones into repo_path
AnalysisTrees == {ManifestTree, NoCodeTree}

\* what the reasoning engine answers to the analysis prompt
AnalysisTexts == {<<Json(PlanComplete(<<>>))>>, <<Json(PlanComplete(<<JStr("DATABASE_URL")>>))>>, <<Prose>>, <<Json(EmptyList)>>}

\* the except block: the state turns to STROBE_RED and the request is
\* answered with status "error" and str(e); context is what
\* get_full_context had come to, if it was called
AnalysisErrorWith(r, detail, context) ==
    /\ agent_state' = "STROBE_RED"
    /\ answer' = [request |-> r, status |-> "error", error_message |-> detail, ledger |-> analyses[r].ledger]
    /\ analyses' = [analyses EXCEPT ![r].pc = "done", ![r].context = context]

AnalysisError(r, detail) == AnalysisErrorWith(r, detail, analyses[r].context)

\* lines 190-200: the state turns to RAPID_PULSE, the ingestor is made and
\* the clone handed to the executor. Requests are numbered in the order
\* they arrive.
AnalysisBegin(r) ==
    /\ analyses[r].pc = "idle"
    /\ \A q \in AnalysisIds : q < r => analyses[q].pc # "idle"
    /\ agent_state' = "RAPID_PULSE"
    /\ analyses' = [analyses EXCEPT ![r].pc = "clone"]
    /\ UNCHANGED <<ingestVars, api_key, deploys, deployed, current_plan, engine, answer, clock, surgeonVars, pending_fixes, simulating, reviews, decision>>

\* clone() runs in a thread of the executor, next to the event loop and to
\* the clone() of any other request. Every request of the same repository
\* has the same repo_path. shutil.rmtree (lines 119-120) removes the entries
\* of repo_path one after the other: here a file of the root goes.
AnalysisRmtreeStep(r) ==
    /\ analyses[r].pc = "clone"
    /\ Exists(disk) /\ disk.files # <<>>
    /\ disk' = [disk EXCEPT !.files = Tail(@)]
    /\ UNCHANGED <<context_cache, ingest, scan, extract, analyzeVars, clock, surgeonVars, sentinelVars>>

\* shutil.rmtree has removed what was left, or repo_path did not exist
AnalysisRmtree(r) ==
    /\ analyses[r].pc = "clone"
    /\ disk' = NoRepo
    /\ analyses' = [analyses EXCEPT ![r].pc = "clone_from"]
    /\ UNCHANGED <<context_cache, ingest, scan, extract, api_key, deploys, deployed, current_plan, engine, answer, clock, surgeonVars, sentinelVars>>

\* Repo.clone_from (line 126) into a destination that does not exist or is
\* empty: the files of the repository are there when it returns
AnalysisClone(r) ==
    /\ analyses[r].pc = "clone_from"
    /\ IF Exists(disk) THEN disk.files = <<>> /\ disk.dirs = <<>> ELSE TRUE
    /\ \E tree \in AnalysisTrees :
         /\ disk' = tree
         /\ analyses' = [analyses EXCEPT ![r].pc = "cloned", ![r].tree = tree]
    /\ UNCHANGED <<context_cache, ingest, scan, extract, api_key, deploys, deployed, current_plan, engine, answer, clock, surgeonVars, sentinelVars>>

\* Repo.clone_from raises: the remote cannot be reached, or the destination
\* exists and is not empty
AnalysisCloneFails(r) ==
    /\ analyses[r].pc = "clone_from"
    /\ AnalysisError(r, "GitCommandError")
    /\ UNCHANGED <<ingestVars, api_key, deploys, deployed, current_plan, engine, clock, surgeonVars, pending_fixes, simulating, reviews, decision>>

\* lines 203-223 up to the await of the reasoning engine: the context is
\* built by the request's own ingestor, the key looked up, the
\* SovereignSurgeon made, its first signature created and the prompt sent
AnalysisPlan(r) ==
    LET context == get_full_context(NoCache, disk)
        sig == ThoughtSignature(clock, 0,
                   "Analyzing codebase structure and generating deployment artifacts",
                   "Full context analysis with Gemini 3 Pro",
                   "Schema validation of output", "low", TextLen(context.text) \div 4)
    IN  /\ analyses[r].pc = "cloned"
        /\ IF context.kind = "raise"
           THEN AnalysisErrorWith(r, context.exc, context) /\ UNCHANGED engine
           ELSE IF api_key_missing(api_key)
           THEN AnalysisErrorWith(r, "GEMINI_API_KEY not configured", context) /\ UNCHANGED engine
           ELSE /\ analyses' = [analyses EXCEPT ![r].pc = "engine", ![r].ledger = ledger_append(<<>>, sig), ![r].context = context]
                /\ engine' = engine \cup {r}
                /\ UNCHANGED <<agent_state, answer>>
        /\ UNCHANGED <<ingestVars, api_key, deploys, deployed, current_plan, clock, surgeonVars, pending_fixes, simulating, reviews, decision>>

\* lines 223-230: the response is parsed, the pair stored and the state
\* turns to SUCCESS; an exception of the parser goes to the except block
AnalysisReturn(r) ==
    /\ analyses[r].pc = "engine"
    /\ \E text \in AnalysisTexts :
         LET outcome == parse_analysis_response(text, analyses[r].ledger[1]) IN
         IF outcome.kind = "raise"
         THEN AnalysisError(r, outcome.exc) /\ UNCHANGED current_plan
         ELSE /\ current_plan' = [stored |-> TRUE, request |-> r, repo_map |-> outcome.repo_map, deployment_plan |-> outcome.deployment_plan]
              /\ agent_state' = "SUCCESS"
              /\ analyses' = [analyses EXCEPT ![r].pc = "sleep"]
              /\ UNCHANGED answer
    /\ UNCHANGED <<ingestVars, api_key, deploys, deployed, engine, clock, surgeonVars, pending_fixes, simulating, reviews, decision>>

\* generate_content_async raises
AnalysisEngineFails(r) ==
    /\ analyses[r].pc = "engine"
    /\ AnalysisError(r, "EngineError")
    /\ UNCHANGED <<ingestVars, api_key, deploys, deployed, current_plan, engine, clock, surgeonVars, pending_fixes, simulating, reviews, decision>>

\* lines 235-242: after the sleep the state turns to BREATHE and the
\* request is answered with status "success"
AnalysisFinish(r) ==
    /\ analyses[r].pc = "sleep"
    /\ agent_state' = "BREATHE"
    /\ answer' = [request |-> r, status |-> "success", error_message |-> "", ledger |-> analyses[r].ledger]
    /\ analyses' = [analyses EXCEPT ![r].pc = "done"]
    /\ UNCHANGED <<ingestVars, api_key, deploys, deployed, current_plan, engine, clock, surgeonVars, pending_fixes, simulating, reviews, decision>>

----------------------------------------------------------------------------
(* src/main.py: deploy_application *)

\* lines 261-272: without a stored plan, or with a plan that names missing
\* secrets, the request is answered with status 400; else the state turns
\* to RAPID_PULSE and the handler is suspended in its emits and in its sleep
DeployBegin ==
    /\ Len(deploys) < MaxDeploys
    /\ IF ~current_plan.stored
       THEN /\ deployed' = [status |-> "400", detail |-> "No deployment plan available. Run /analyze first."]
            /\ UNCHANGED <<agent_state, deploys>>
       ELSE IF current_plan.deployment_plan.secrets_missing # <<>>
       THEN /\ deployed' = [status |-> "400", detail |-> "Missing required secrets"]
            /\ UNCHANGED <<agent_state, deploys>>
       ELSE /\ agent_state' = "RAPID_PULSE"
            /\ deploys' = Append(deploys, [pc |-> "sleep", checked |-> current_plan])
            /\ UNCHANGED deployed
    /\ UNCHANGED <<ingestVars, api_key, current_plan, analyses, engine, answer, clock, surgeonVars, pending_fixes, simulating, reviews, decision>>

\* line 281, after the sleep: the state turns to SUCCESS and the handler is
\* suspended in its emits
DeploySuccess(i) ==
    /\ deploys[i].pc = "sleep"
    /\ agent_state' = "SUCCESS"
    /\ deploys' = [deploys EXCEPT ![i].pc = "emit"]
    /\ UNCHANGED <<ingestVars, api_key, current_plan, analyses, engine, answer, deployed, clock, surgeonVars, pending_fixes, simulating, reviews, decision>>

\* lines 285-289: the plan whose service_url_pattern the handler returns is
\* sentinel_state.current_deployment_plan as it is now
returned_plan(i) == current_plan

DeployReturn(i) ==
    /\ deploys[i].pc = "emit"
    /\ deployed' = [status |-> "success", service_url |-> returned_plan(i).deployment_plan.service_url_pattern, plan |-> returned_plan(i), checked |-> deploys[i].checked]
    /\ deploys' = RemoveAt(deploys, i)
    /\ UNCHANGED <<ingestVars, api_key, current_plan, analyses, engine, answer, agent_state, clock, surgeonVars, pending_fixes, simulating, reviews, decision>>

----------------------------------------------------------------------------
(* Specifications *)

InitProgram ==
    /\ clock \in StartClocks
    /\ thought_signatures = <<>>
    /\ prior_signatures \in PriorCounts
    /\ calls = [c \in CallIds |-> IdleCall]
    /\ last = [call |-> 0, text |-> <<>>, outcome |-> NoOutcome]
    /\ agent_state = "IDLE"
    /\ pending_fixes = <<>>
    /\ simulating = 0
    /\ reviews = <<>>
    /\ decision = NoDecision
    /\ disk = NoRepo
    /\ context_cache = NoCache
    /\ ingest = NoIngest
    /\ scan = NoScan
    /\ current_plan = NoPlan
    /\ analyses = [r \in AnalysisIds |-> IdleAnalysis]
    /\ engine = {}
    /\ answer = NoAnswer
    /\ deploys = <<>>
    /\ deployed = NoDeployed

Init == InitProgram /\ api_key = "key" /\ extract = NoExtract

\* One SovereignSurgeon instance and its callers
NextSurgeon ==
    \/ \E c \in CallIds : AnalyzeStart(c)
    \/ \E c \in CallIds : DiagnoseStart(c)
    \/ \E c \in CallIds : AnalyzeReturn(c)
    \/ \E c \in CallIds : DiagnoseReturn(c)
    \/ \E c \in CallIds : RequestFails(c)
    \/ Tick

SpecSurgeon == Init /\ [][NextSurgeon]_vars

\* The fix-review endpoints of main.py
NextSentinel ==
    \/ SimulateBegin
    \/ SimulateCreate
    \/ ReviewNotFound
    \/ ApproveBegin
    \/ \E i \in DOMAIN reviews : ApproveApply(i)
    \/ \E i \in DOMAIN reviews : ApproveFinish(i)
    \/ Reject
    \/ Modify
    \/ Tick

InitSentinel == Init /\ prior_signatures = 0

SpecSentinel == InitSentinel /\ [][NextSentinel]_vars

\* One RepositoryIngestor instance and the directory it works on
NextIngest ==
    \/ Clone
    \/ Cleanup
    \/ DiskChanges
    \/ GetFullContext
    \/ BuildRepoMap

SpecIngest == InitSentinel /\ [][NextIngest]_vars

\* The port scanner on its own
NextPorts == FindPorts

SpecPorts == InitSentinel /\ [][NextPorts]_vars

\* The analysis endpoint of main.py
NextAnalyze ==
    \/ \E r \in AnalysisIds : AnalysisBegin(r)
    \/ \E r \in AnalysisIds : AnalysisRmtree(r)
    \/ \E r \in AnalysisIds : AnalysisClone(r)
    \/ \E r \in AnalysisIds : AnalysisCloneFails(r)
    \/ \E r \in AnalysisIds : AnalysisPlan(r)
    \/ \E r \in AnalysisIds : AnalysisReturn(r)
    \/ \E r \in AnalysisIds : AnalysisEngineFails(r)
    \/ \E r \in AnalysisIds : AnalysisFinish(r)

InitAnalyze == InitProgram /\ prior_signatures = 0 /\ api_key \in ApiKeys /\ extract = NoExtract

SpecAnalyze == InitAnalyze /\ [][NextAnalyze]_vars

\* The analysis endpoint with the removal of the old clone seen entry by
\* entry
NextClones ==
    \/ NextAnalyze
    \/ \E r \in AnalysisIds : AnalysisRmtreeStep(r)

SpecClones == InitSentinel /\ [][NextClones]_vars

\* The deploy endpoint of main.py next to the analysis endpoint
NextDeploy ==
    \/ NextAnalyze
    \/ DeployBegin
    \/ \E i \in DOMAIN deploys : DeploySuccess(i)
    \/ \E i \in DOMAIN deploys : DeployReturn(i)

SpecDeploy == InitSentinel /\ [][NextDeploy]_vars

\* The dependency extractor on its own
NextManifest == ParseDependencies

InitManifest == InitProgram /\ prior_signatures = 0 /\ api_key = "key" /\ extract \in {Unparsed(file) : file \in ManifestFiles}

SpecManifest == InitManifest /\ [][NextManifest]_vars

Next == NextSurgeon \/ NextSentinel \/ NextIngest \/ NextPorts \/ NextAnalyze \/ NextManifest \/ NextDeploy \/ NextClones

Spec == Init /\ [][Next]_vars

----------------------------------------------------------------------------
(* Properties *)

\* What the last completed call was
LastOp == IF last.call = 0 THEN "none" ELSE calls[last.call].op
Returned == last.outcome.kind = "return"
Raised == last.outcome.kind = "raise"

\* The response of the last call held a JSON value once its fences were off
LastLoaded == json_loads(strip_fences(last.text))

\* The calls that have started
Started == {c \in CallIds : calls[c].pc # "idle"}

\* C1: a reviewer decision (approve or reject) on a proposal whose status is
\* not PENDING is answered with an error and leaves the proposal's status,
\* rejection_reason and reviewed_at as they were.
C1_NonPendingDecisionRejected ==
    IF decision.action \in {"approve", "reject"} /\ decision.result # "404"
    THEN decision.before.status # "pending"
            => /\ decision.result = "error"
               /\ decision.after = decision.before
    ELSE TRUE

\* C2: a proposal's status changes only along PENDING->APPROVED,
\* PENDING->REJECTED, APPROVED->APPLIED and APPROVED->FAILED, so APPLIED is
\* entered from APPROVED only and APPLIED, FAILED and REJECTED are final.
StatusEdges ==
    {<<"pending", "approved">>, <<"pending", "rejected">>,
     <<"approved", "applied">>, <<"approved", "failed">>}

C2_StatusEdges ==
    [][\A f \in DOMAIN pending_fixes :
          \/ pending_fixes'[f].status = pending_fixes[f].status
          \/ <<pending_fixes[f].status, pending_fixes'[f].status>> \in StatusEdges]_vars

\* C3: whatever text the reasoning engine answers with, the planning parser
\* and the diagnosis parser return an object; neither raises.
C3_ParsersNeverRaise ==
    (LastOp # "none" /\ Raised) => last.outcome.exc = "EngineError"

\* C4: when the response of a planning call holds no JSON value once its
\* fences are off, the parser returns the fixed default pair: the RepoMap
\* unknown / python / main.py / requirements.txt with every other field at
\* its schema default, and the default DeploymentPlan with non-empty
\* Dockerfile and Terraform content; nothing of it comes from the text.
C4_NonJsonGivesDefaults ==
    (LastOp = "analyze" /\ ~Raised /\ ~LastLoaded.ok) =>
        /\ Returned
        /\ last.outcome.repo_map =
              [project_name |-> "unknown", primary_language |-> "python",
               framework |-> JNull, entry_point |-> "main.py",
               dependency_file |-> "requirements.txt", dependencies |-> <<>>,
               file_mappings |-> <<>>, total_files |-> 0, total_tokens |-> 0,
               logic_flow |-> <<>>, detected_env_vars |-> <<>>,
               detected_ports |-> <<>>]
        /\ last.outcome.deployment_plan.dockerfile.full_content # ""
        /\ last.outcome.deployment_plan.terraform.full_content # ""
        /\ last.outcome.deployment_plan.dockerfile.base_image = "python:3.12-slim"
        /\ last.outcome.deployment_plan.secrets_required = <<>>
        /\ last.outcome.deployment_plan.secrets_missing = <<>>
        /\ last.outcome.deployment_plan.estimated_monthly_cost_usd = 0
        /\ last.outcome.deployment_plan.deployment_region = "us-central1"
        /\ last.outcome.deployment_plan.service_url_pattern = "https://PROJECT.run.app"

C4_Witness ==
    /\ LastOp = "analyze" /\ Returned
    /\ last.text = <<Prose, Json(PlanComplete(<<>>))>>

\* C5: every DeploymentPlan that analyze_and_plan returns has a non-empty
\* dockerfile.full_content and a non-empty terraform.full_content.
C5_FullContentNonEmpty ==
    (LastOp = "analyze" /\ Returned) =>
        /\ last.outcome.deployment_plan.dockerfile.full_content # ""
        /\ last.outcome.deployment_plan.terraform.full_content # ""

\* C6: every FixProposal there is (returned by diagnose_error, or built by
\* simulate_error) has its confidence_score within [0, 1], and a response
\* whose confidence_score lies outside [0, 1] yields no FixProposal: the
\* constructor raises.
ConfidenceInRange(fix) ==
    fix.confidence_score >= 0 /\ fix.confidence_score <= 100

LastConfidenceOutOfRange ==
    /\ LastLoaded.ok
    /\ LastLoaded.v.t = "obj"
    /\ "confidence_score" \in DOMAIN LastLoaded.v.o
    /\ LastLoaded.v.o["confidence_score"].t \in {"int", "float"}
    /\ \/ FloatVal(LastLoaded.v.o["confidence_score"]) < 0
       \/ FloatVal(LastLoaded.v.o["confidence_score"]) > 100

C6_ConfidenceWithinUnitInterval ==
    /\ \A f \in DOMAIN pending_fixes : ConfidenceInRange(pending_fixes[f])
    /\ ConfidenceInRange(DemoFix(1))
    /\ (LastOp = "diagnose" /\ Returned) => ConfidenceInRange(last.outcome.fix)
    /\ (LastOp = "diagnose" /\ LastConfidenceOutOfRange) =>
            (Raised /\ last.outcome.exc = "ValidationError")

C6_Witness ==
    /\ LastOp = "diagnose" /\ LastConfidenceOutOfRange /\ Raised
    /\ FloatVal(LastLoaded.v.o["confidence_score"]) > 100

\* C7: the object a call returns carries the ThoughtSignature that this very
\* call created and appended to the ledger when it started, before its
\* prompt went out: as the only entry of the plan's thought_signatures, or
\* as the proposal's thought_signature, decoded or fallback alike.
CarriedSignatures ==
    IF LastOp = "analyze" THEN last.outcome.deployment_plan.thought_signatures
    ELSE <<last.outcome.fix.thought_signature>>

C7_ResultCarriesOwnSignature ==
    (LastOp # "none" /\ Returned) =>
        /\ CarriedSignatures = <<calls[last.call].sig>>
        /\ thought_signatures[last.call] = calls[last.call].sig
        /\ calls[last.call].sig # NoSignature

\* a call returned while a call that started after it was still waiting
C7_Witness ==
    /\ Returned /\ last.call = 1
    /\ Len(thought_signatures) = 2

\* C8: the ledger holds one record per call started, in the order the calls
\* started, whether a call returned, failed in its request or failed in
\* decoding; each record is the one its call created, in place, unchanged.
C8_LedgerOneRecordPerCall ==
    /\ Len(thought_signatures) = Cardinality(Started)
    /\ \A c \in Started :
          /\ thought_signatures[c] = calls[c].sig
          /\ calls[c].sig # NoSignature
    /\ \A i, j \in DOMAIN thought_signatures :
          i < j => thought_signatures[i].timestamp <= thought_signatures[j].timestamp

C8_Witness ==
    /\ Len(thought_signatures) = 2
    /\ Raised /\ last.call = 1
    /\ calls[2].pc = "done"

\* C9: no two records of the ledger have the same id, whatever their number
\* and creation times; nor does a record share its id with a record that an
\* earlier call could have created.
EarlierCounts == {n \in {0, 1, 99, 100, 998} : n < prior_signatures}
EarlierClocks == {0, 43200, SecondsPerDay - 1}

C9_SignatureIdsDistinct ==
    /\ \A i, j \in DOMAIN thought_signatures :
          i # j => thought_signatures[i].id # thought_signatures[j].id
    /\ \A i \in DOMAIN thought_signatures, n \in EarlierCounts, t \in EarlierClocks :
          thought_signatures[i].id # sig_id(t, n)

\* two records created within the same second
C9_Witness ==
    /\ Len(thought_signatures) = 2
    /\ thought_signatures[1].timestamp = thought_signatures[2].timestamp

\* C10: a record created later has an id that compares greater (as Python
\* compares strs) than the id of every record created earlier.
Ord(ch) ==
    CASE ch = "-" -> 45
      [] ch = "0" -> 48 [] ch = "1" -> 49 [] ch = "2" -> 50 [] ch = "3" -> 51
      [] ch = "4" -> 52 [] ch = "5" -> 53 [] ch = "6" -> 54 [] ch = "7" -> 55
      [] ch = "8" -> 56 [] ch = "9" -> 57
      [] ch = "G" -> 71 [] ch = "I" -> 73 [] ch = "S" -> 83

RECURSIVE StrLess(_, _)
StrLess(a, b) ==
    IF b = <<>> THEN FALSE
    ELSE IF a = <<>> THEN TRUE
    ELSE IF Ord(Head(a)) # Ord(Head(b)) THEN Ord(Head(a)) < Ord(Head(b))
    ELSE StrLess(Tail(a), Tail(b))

C10_SignatureIdsIncrease ==
    \A i, j \in DOMAIN thought_signatures :
        i < j => StrLess(thought_signatures[i].id, thought_signatures[j].id)

----------------------------------------------------------------------------
(* Properties of the ingestor *)

\* The last ingestor call was op and it returned
IngestReturned(op) == ingest.op = op /\ ingest.outcome.kind = "return"

\* The RepoMap the last build_repo_map call returned
BuiltMap == ingest.outcome.repo_map

\* C11: the RepoMap that build_repo_map returns has total_files equal to the
\* length of its file_mappings, also when files fail to stat or to read.
C11_TotalFilesIsLength ==
    IngestReturned("build_repo_map") => BuiltMap.total_files = Len(BuiltMap.file_mappings)

\* a repository with a file that cannot be read and one that cannot be
\* stat'ed, and with a file of size 0
C11_Witness ==
    /\ IngestReturned("build_repo_map")
    /\ ingest.disk \in {FaultTree, NestedTree}
    /\ BuiltMap.total_files >= 2

\* C12: every RepoMap that analyze_and_plan returns, decoded or fallback,
\* has total_files equal to the length of its file_mappings.
C12_PlannedTotalFilesIsLength ==
    (LastOp = "analyze" /\ Returned) =>
        last.outcome.repo_map.total_files = Len(last.outcome.repo_map.file_mappings)

\* C13: no file below a directory whose name is in the deny-set, at any
\* depth, is in build_repo_map's file_mappings or in get_full_context's
\* text, and the walk enters no such directory.
BelowDenied(path) == \E i \in 1..(Len(path) - 1) : path[i] \in DEFAULT_IGNORE

InDenied(root) == \E i \in DOMAIN root : root[i] \in DEFAULT_IGNORE

C13_DeniedDirectoriesLeftOut ==
    /\ IngestReturned("build_repo_map") =>
          /\ \A i \in DOMAIN BuiltMap.file_mappings : ~BelowDenied(BuiltMap.file_mappings[i].path)
          /\ \A i \in DOMAIN ingest.outcome.entered : ~InDenied(ingest.outcome.entered[i])
    /\ ingest.outcome.kind = "return" =>
          \A i \in DOMAIN ingest.outcome.cache.parts : ~BelowDenied(ingest.outcome.cache.parts[i].path)
    /\ context_cache.t = "str" =>
          \A i \in DOMAIN context_cache.parts : ~BelowDenied(context_cache.parts[i].path)

\* the repository has deny-set directories at depths 1, 2 and 3, each with
\* code files, and files outside them were mapped
C13_Witness ==
    /\ IngestReturned("build_repo_map")
    /\ ingest.disk = NestedTree
    /\ ingest.cache = NoCache
    /\ Len(BuiltMap.file_mappings) >= 4
    /\ Len(ingest.outcome.cache.parts) >= 4

\* C14: once get_full_context has returned a text on an instance, every
\* later call returns that same text, whatever has changed on disk since,
\* the empty text included.
C14_ContextCacheStable ==
    IngestReturned("get_full_context") => ingest.outcome.text = ingest.first_text

\* a call answered with the cached empty text although the directory now
\* holds files the walk would read
C14_Witness ==
    /\ IngestReturned("get_full_context")
    /\ ingest.cache = Text(<<>>)
    /\ Exists(ingest.disk)
    /\ read_context(ingest.disk).parts # <<>>

\* C15: primary_language is a language with the highest number of mapped
\* files; among several such it is the one whose first file the walk met
\* first; it is "unknown" when no file is mapped.
LanguageCount(mappings, language) == Cardinality({i \in DOMAIN mappings : mappings[i].language = language})

FirstMet(mappings, language) == Min({i \in DOMAIN mappings : mappings[i].language = language})

C15_PrimaryLanguageFirstMet ==
    IngestReturned("build_repo_map") =>
        LET mappings == BuiltMap.file_mappings
            primary == BuiltMap.primary_language
        IN  IF mappings = <<>> THEN primary = "unknown"
            ELSE /\ \E i \in DOMAIN mappings : mappings[i].language = primary
                 /\ \A i \in DOMAIN mappings :
                       /\ LanguageCount(mappings, mappings[i].language) <= LanguageCount(mappings, primary)
                       /\ LanguageCount(mappings, mappings[i].language) = LanguageCount(mappings, primary)
                             => FirstMet(mappings, primary) <= FirstMet(mappings, mappings[i].language)

\* two languages share the highest count
C15_Witness ==
    /\ IngestReturned("build_repo_map")
    /\ ingest.disk = TieTree
    /\ BuiltMap.primary_language = "python"

\* C16: when several languages share the highest count, primary_language is
\* the one that reached that count first in the order of the walk.
ReachedAt(mappings, language, n) == Min({i \in DOMAIN mappings : mappings[i].language = language /\ Cardinality({j \in 1..i : mappings[j].language = language}) = n})

C16_PrimaryLanguageFirstToReachMax ==
    (IngestReturned("build_repo_map") /\ BuiltMap.file_mappings # <<>>) =>
        LET mappings == BuiltMap.file_mappings
            primary == BuiltMap.primary_language
            top == LanguageCount(mappings, primary)
        IN  \A i \in DOMAIN mappings :
                LanguageCount(mappings, mappings[i].language) = top
                    => ReachedAt(mappings, primary, top) <= ReachedAt(mappings, mappings[i].language, top)

\* C17: when the walk finds several dependency manifests, dependency_file is
\* the first one found and the dependencies are those of that manifest only.
Manifests(mappings) == SelectSeq(mappings, LAMBDA m : m.path[Len(m.path)] \in DEPENDENCY_FILES)

C17_FirstManifestOnly ==
    (IngestReturned("build_repo_map") /\ Len(Manifests(BuiltMap.file_mappings)) >= 2) =>
        LET first == Manifests(BuiltMap.file_mappings)[1].path IN
        /\ BuiltMap.dependency_file = first
        /\ \A i \in DOMAIN BuiltMap.dependencies : BuiltMap.dependencies[i].source = first[Len(first)]

\* C18: a stat or read error on a file aborts neither build_repo_map nor
\* get_full_context, and the file is skipped: the result is the one of the
\* same directory without the failing files.
Fails(file) == ~file.stat_ok \/ ~file.read_ok

RECURSIVE WithoutFailing(_)
WithoutFailing(dir) ==
    Dir(dir.name, SelectSeq(dir.files, LAMBDA f : ~Fails(f)), [i \in DOMAIN dir.dirs |-> WithoutFailing(dir.dirs[i])])

C18_FailingFilesSkipped ==
    (ingest.op # "none" /\ Exists(ingest.disk)) =>
        /\ ingest.outcome.kind = "return"
        /\ ingest.outcome.cache = get_full_context(ingest.cache, WithoutFailing(ingest.disk)).cache
        /\ ingest.op = "build_repo_map" =>
              /\ BuiltMap = build_repo_map(ingest.cache, WithoutFailing(ingest.disk)).repo_map
              /\ ingest.outcome.language_counts = build_repo_map(ingest.cache, WithoutFailing(ingest.disk)).language_counts

\* C19: with the API credential absent, an analysis request ends in an
\* error before the reasoning engine is called: no signature is created, no
\* prompt is sent and no plan is stored.
C19_NoKeyNoReasoningCall ==
    api_key \in {"none", ""} =>
        /\ engine = {}
        /\ current_plan = NoPlan
        /\ \A r \in AnalysisIds : analyses[r].ledger = <<>>
        /\ answer.status \in {"none", "error"}
        /\ answer.status = "error" => answer.ledger = <<>>

\* a request that got as far as the key check, with the variable not set
C19_Witness ==
    /\ api_key = "none"
    /\ answer.status = "error"
    /\ answer.error_message = "GEMINI_API_KEY not configured"

\* C20: every port the scanner returns lies in [1024, 65535] and is the
\* value of a numeric literal of the content; a literal outside that range
\* makes no port be reported; every literal within it that stands in one
\* of the port patterns is reported.
\* A numeric literal: a run of digits with no digit before or after it.
Literals(text) ==
    {SubSeq(text, i, i + DigitRun(text, i) - 1) : i \in {k \in DOMAIN text : IsDigit(text[k]) /\ (k = 1 \/ ~IsDigit(text[k - 1]))}}

\* the literal between lead and tail stands in one of the port patterns
InPortPattern(lead, tail) ==
    \/ lead \in {<<"port", "=">>, <<"PORT", " ", ":", " ">>, <<"listen(">>}
    \/ lead = <<":">> /\ tail \in {<<"/">>, <<"\"">>}

C20_PortsAreLiteralsInRange ==
    scan.done =>
        /\ \A port \in scan.ports : 1024 <= port /\ port <= 65535
        /\ \A port \in scan.ports : \E literal \in Literals(scan.text) : int(literal) = port
        /\ \A lead \in PortLeads, literal \in PortLiterals, tail \in PortTails :
              (/\ scan.text = lead \o literal \o tail
               /\ InPortPattern(lead, tail)
               /\ 1024 <= int(literal) /\ int(literal) <= 65535)
                 => int(literal) \in scan.ports

----------------------------------------------------------------------------
(* Properties of the dependency extractor *)

\* the lines of a manifest that are neither blank nor comments, stripped
DependencyLines(lines) ==
    SelectSeq([i \in DOMAIN lines |-> line_strip(lines[i])], LAMBDA line : line # <<>> /\ Head(line) # "#")

\* the tokens of a line that precede its first version operator or bracket
RECURSIVE BareName(_)
BareName(line) ==
    IF line = <<>> \/ Head(line) \in VersionOperators \cup {"["} THEN <<>>
    ELSE <<Head(line)>> \o BareName(Tail(line))

\* the version that follows the first == of a line
ExactPin(line) ==
    LET at == {i \in DOMAIN line : line[i] = "=="} IN
    IF at = {} THEN JNull ELSE JStr(<<line[Min(at) + 1]>>)

ExtractedRequirements ==
    /\ extract.done
    /\ extract.file.name = Name("requirements", ".txt")
    /\ extract.file.read_ok

\* C21: for every line of a requirements-style manifest that is neither
\* blank nor a comment, the extractor yields one DependencyInfo whose name
\* is the bare package name, with every version operator (==, >=, <=, <, >,
\* ~=, !=) and the extras stripped, whose version is the exact pin after ==
\* when there is one and none otherwise, and whose source is the manifest
\* filename.
C21_RequirementLinesParsed ==
    ExtractedRequirements =>
        LET kept == DependencyLines(extract.file.content.lines) IN
        /\ Len(extract.deps) = Len(kept)
        /\ \A i \in DOMAIN kept :
              /\ extract.deps[i].name = BareName(kept[i])
              /\ extract.deps[i].version = ExactPin(kept[i])
              /\ extract.deps[i].source = extract.file.name

\* the name of a dependency is the empty str
EmptyName(dep) ==
    IF dep.source = Name("requirements", ".txt") THEN dep.name = <<>> ELSE dep.name = ""

\* C25: every DependencyInfo the dependency extractor produces, whatever the
\* manifest holds (lines that begin with a version operator included), has
\* a non-empty name.
C25_DependencyNamesNonEmpty ==
    extract.done => \A i \in DOMAIN extract.deps : ~EmptyName(extract.deps[i])

----------------------------------------------------------------------------
(* Properties of build_repo_map's framework and entry point *)

\* every pattern of the framework table
Signatures == UNION {FrameworkTable[i].patterns : i \in DOMAIN FrameworkTable}

\* the files whose content the traversal reads, in traversal order
ReadFiles(dir) == SelectSeq(walk_files(dir), LAMBDA visit : in_context(visit) /\ visit.file.stat_ok)

\* the frameworks of the table, by position, that have a pattern in the content
FrameworksIn(content) == {k \in DOMAIN FrameworkTable : FrameworkTable[k].patterns \cap content.patterns # {}}

\* C22: the framework of build_repo_map's RepoMap is decided by the first
\* file in traversal order whose content matches any framework signature,
\* and within that file by the first framework in table order that has a
\* matching pattern; files traversed later never change it, and it is none
\* when no file matches.
C22_FrameworkByFirstFileAndTableOrder ==
    IngestReturned("build_repo_map") =>
        LET files == ReadFiles(ingest.disk)
            matching == {i \in DOMAIN files : files[i].file.content.patterns \cap Signatures # {}}
        IN  IF matching = {} THEN BuiltMap.framework = JNull
            ELSE BuiltMap.framework = JStr(FrameworkTable[Min(FrameworksIn(files[Min(matching)].file.content))].framework)

\* the first matching file holds signatures of Express and of Next.js, a
\* later file one of FastAPI, which stands first in the table
C22_Witness ==
    /\ IngestReturned("build_repo_map")
    /\ ingest.disk = FrameworkTree
    /\ BuiltMap.framework = JStr("Express")

\* the names of the regular files of a directory, at any depth
RECURSIVE FileNames(_)
FileNames(dir) ==
    {dir.files[i].name : i \in {j \in DOMAIN dir.files : dir.files[j].stat_ok}}
        \cup UNION {FileNames(dir.dirs[i]) : i \in DOMAIN dir.dirs}

\* C23: the entry_point of build_repo_map's RepoMap is the first file of the
\* primary language's priority list that exists in the repository; when
\* none exists it is a file of the repository, at any depth, whose name
\* contains "main"; it is "unknown" only when there is no such file either.
C23_EntryPointFallsBackToAnyMainFile ==
    IngestReturned("build_repo_map") =>
        LET entries == ENTRY_POINTS(BuiltMap.primary_language)
            found == {i \in DOMAIN entries : path_exists(ingest.disk, entries[i])}
            mains == {name \in FileNames(ingest.disk) : contains_main(name)}
        IN  IF found # {} THEN BuiltMap.entry_point = entries[Min(found)]
            ELSE IF mains # {} THEN \E name \in mains : BuiltMap.entry_point = <<name>>
            ELSE BuiltMap.entry_point = UnknownPath

----------------------------------------------------------------------------
(* Properties of the diagnosis parser and of the fences *)

\* C24: every CodePatch of every FixProposal that diagnose_error returns has
\* end_line >= start_line, whatever line numbers the response gives or
\* leaves out.
C24_PatchLinesOrdered ==
    (LastOp = "diagnose" /\ Returned) =>
        \A i \in DOMAIN last.outcome.fix.patches :
            last.outcome.fix.patches[i].end_line >= last.outcome.fix.patches[i].start_line

\* the opening delimiter lines: a bare fence, and a fence followed by the
\* language tag in lower, upper and mixed case
FenceOpenings == {<<Fence>>, <<Fence, Tag("json")>>, <<Fence, Tag("JSON")>>, <<Fence, Tag("Json")>>}

\* a JSON text in a fenced-code block
Fenced(opening, v) == opening \o <<Ws, Json(v), Ws, Fence>>

\* what the last call had come to if text had been the response it got
Reparsed(text) ==
    IF LastOp = "analyze" THEN parse_analysis_response(text, calls[last.call].sig)
    ELSE parse_diagnosis_response(text, IF Returned THEN last.outcome.fix.created_at ELSE clock, StackTrace, calls[last.call].error_message, AffectedFile, calls[last.call].affected_line, calls[last.call].sig)

\* C26: wrapping a response in a fenced-code block does not change the
\* parser's result: for every JSON text and every opening delimiter line (a
\* bare fence, or a fence followed by a language tag in any letter case),
\* parsing the fenced text yields the same objects as parsing the JSON text
\* itself.
C26_FencesLeaveResultUnchanged ==
    LastOp # "none" =>
        \A opening \in FenceOpenings, v \in PlanValues \cup FixValues :
            last.text = Fenced(opening, v) => last.outcome = Reparsed(<<Json(v)>>)

----------------------------------------------------------------------------
(* Properties of the pending-fix views *)

\* C27: after any sequence of simulate, approve, reject and modify requests
\* the pending-fix views (the /fixes listing and SystemState.pending_fixes)
\* hold only proposals whose status is PENDING: a proposal that was applied
\* or rejected is no longer in them.
C27_PendingViewsHoldPendingOnly ==
    /\ \A i \in DOMAIN get_pending_fixes : get_pending_fixes[i].status = "pending"
    /\ \A i \in DOMAIN get_system_state.pending_fixes :
          pending_fixes[get_system_state.pending_fixes[i]].status = "pending"

----------------------------------------------------------------------------
(* Properties of the deploy endpoint and of concurrent analyses *)

\* C28: a deploy request reports a successful deployment only for a stored
\* deployment plan whose secrets_missing list is empty: however analysis
\* requests that replace the stored plan interleave with the suspended
\* deploy request, the service URL it returns belongs to a plan that passed
\* the missing-secrets check.
C28_DeployedPlanPassedSecretsCheck ==
    deployed.status = "success" =>
        /\ deployed.plan.deployment_plan.secrets_missing = <<>>
        /\ deployed.plan = deployed.checked

\* the requests whose clone() returned
Cloned == {r \in AnalysisIds : Exists(analyses[r].tree)}

\* the context texts of the complete clones
CompleteContexts == {read_context(tree) : tree \in AnalysisTrees}

\* C30: two analysis requests for the same repository that run concurrently
\* do not interfere through the shared clone directory: the context text
\* each request builds consists of the files of one complete clone, and
\* neither request's delete-then-clone step removes or replaces files while
\* the other request is cloning or reading them.
C30_ConcurrentClonesDoNotInterfere ==
    /\ \A r \in Cloned :
          analyses[r].context # NoOutcome =>
              /\ analyses[r].context.kind = "return"
              /\ analyses[r].context.text \in CompleteContexts
    /\ \A r \in Cloned :
          analyses[r].pc = "cloned" => disk = analyses[r].tree

----------------------------------------------------------------------------
(* Properties of interleaved SovereignSurgeon operations *)

\* C29: when planning or diagnosis operations on the same agent instance
\* interleave at their suspension points (the reasoning-engine call), the
\* ledger still ends with one record per operation, the records have
\* distinct ids, and each operation's result carries the signature that
\* operation itself created.
C29_InterleavedOperationsKeepLedger ==
    /\ Len(thought_signatures) = Cardinality(Started)
    /\ \A c, d \in Started :
          c # d => thought_signatures[c].id # thought_signatures[d].id
    /\ (LastOp # "none" /\ Returned) =>
          /\ CarriedSignatures # <<>>
          /\ \A i \in DOMAIN CarriedSignatures :
                CarriedSignatures[i] = thought_signatures[last.call]

\* the second operation began and ended while the first was suspended, and
\* the first has returned since
C29_Witness ==
    /\ calls[1].pc = "done" /\ calls[2].pc = "done"
    /\ last.call = 1 /\ Returned
    /\ Len(thought_signatures) >= 2

====
